---------------------------- MODULE Spec2Model ----------------------------
(***************************************************************************)
(* A model of evennia/utils/picklefield.py: the pickled-object field, its  *)
(* codec (deepcopy, pickle protocol 4, zlib, base64), the conflict wrapper *)
(* and the admin form field.                                               *)
(*                                                                         *)
(* Byte strings and texts are sequences of numbers 0..255 (texts: ASCII    *)
(* codes).  A failing call is a result record with ok = FALSE and the      *)
(* exception's class in err.                                               *)
(***************************************************************************)
EXTENDS Integers, Sequences, FiniteSets, TLC

(***************************************************************************)
(* Results of calls that may raise.                                        *)
(***************************************************************************)
Ok(v) == [ok |-> TRUE, err |-> "", val |-> v]
Raise(e) == [ok |-> FALSE, err |-> e, val |-> <<>>]

\* The pickle protocol the field pins.
DEFAULT_PROTOCOL == 4

(***************************************************************************)
(* Sequence helpers.                                                       *)
(***************************************************************************)
Drop(s, n) == SubSeq(s, n + 1, Len(s))
Take(s, n) == SubSeq(s, 1, n)

\* Op applied from the left over lo..hi, starting from st: a loop over the
\* positions of a sequence, split in halves (the first half is computed
\* before the second is entered).
RECURSIVE FoldRange(_, _, _, _)
FoldRange(Op(_, _), st, lo, hi) ==
    IF lo > hi THEN st
    ELSE IF lo = hi THEN Op(st, lo)
    ELSE LET half == FoldRange(Op, st, lo, (lo + hi) \div 2) IN
         IF Len(<<half>>) = 1 THEN FoldRange(Op, half, (lo + hi) \div 2 + 1, hi)
         ELSE half

(***************************************************************************)
(* base64.b64encode: three bytes become four characters of the alphabet    *)
(* A-Z a-z 0-9 + /, the last group padded with '='.                        *)
(***************************************************************************)
B64Char(i) ==
    IF i < 26 THEN 65 + i
    ELSE IF i < 52 THEN 97 + (i - 26)
    ELSE IF i < 62 THEN 48 + (i - 52)
    ELSE IF i = 62 THEN 43 ELSE 47

\* The alphabet's index of a character, 64 for a character outside it.
B64Index(c) ==
    IF c >= 65 /\ c <= 90 THEN c - 65
    ELSE IF c >= 97 /\ c <= 122 THEN c - 97 + 26
    ELSE IF c >= 48 /\ c <= 57 THEN c - 48 + 52
    ELSE IF c = 43 THEN 62
    ELSE IF c = 47 THEN 63 ELSE 64

b64encode(b) ==
    LET n == Len(b)
        At(i) == IF i <= n THEN b[i] ELSE 0
        Quad(g, j) ==
            CASE j = 0 -> B64Char(At(3 * g + 1) \div 4)
              [] j = 1 -> B64Char((At(3 * g + 1) % 4) * 16 + (At(3 * g + 2) \div 16))
              [] j = 2 -> IF 3 * g + 2 > n THEN 61
                          ELSE B64Char((At(3 * g + 2) % 16) * 4 + (At(3 * g + 3) \div 64))
              [] OTHER -> IF 3 * g + 3 > n THEN 61 ELSE B64Char(At(3 * g + 3) % 64)
    IN  [i \in 1..(4 * ((n + 2) \div 3)) |-> Quad((i - 1) \div 4, (i - 1) % 4)]

(***************************************************************************)
(* base64.b64decode(s) with validate=False, that is binascii.a2b_base64 in *)
(* its non-strict mode: characters outside the alphabet are skipped, a pad *)
(* sequence completing a quad ends the parse, and a trailing incomplete    *)
(* quad raises binascii.Error.                                             *)
(***************************************************************************)
A2bStep(s, st, i) ==
    IF st.done THEN st
    ELSE IF s[i] = 61 THEN
        IF st.quad >= 2 /\ st.quad + st.pads + 1 >= 4 THEN [st EXCEPT !.done = TRUE]
        ELSE IF st.quad >= 2 THEN [st EXCEPT !.pads = @ + 1] ELSE st
    ELSE IF B64Index(s[i]) >= 64 THEN st
    ELSE
        LET c == B64Index(s[i]) IN
        CASE st.quad = 0 ->
                [st EXCEPT !.quad = 1, !.left = c, !.pads = 0]
          [] st.quad = 1 ->
                [st EXCEPT !.quad = 2, !.left = c % 16, !.pads = 0,
                           !.out = Append(@, st.left * 4 + (c \div 16))]
          [] st.quad = 2 ->
                [st EXCEPT !.quad = 3, !.left = c % 4, !.pads = 0,
                           !.out = Append(@, st.left * 16 + (c \div 4))]
          [] OTHER ->
                [st EXCEPT !.quad = 0, !.left = 0, !.pads = 0,
                           !.out = Append(@, st.left * 64 + c)]

b64decode(s) ==
    LET Op(st, i) == A2bStep(s, st, i)
        end == FoldRange(Op, [quad |-> 0, left |-> 0, pads |-> 0, out |-> <<>>,
                              done |-> FALSE], 1, Len(s))
    IN  IF ~end.done /\ end.quad # 0 THEN Raise("binascii.Error") ELSE Ok(end.out)

(***************************************************************************)
(* zlib.compress / zlib.decompress.  The stream is the zlib format: the    *)
(* two header bytes 0x78 0x9C, a deflate body and the Adler-32 checksum of *)
(* the data.  The deflate body is written as one stored block (final bit,  *)
(* LEN, its complement NLEN, the bytes), which every inflater accepts;     *)
(* decompress accepts that form and raises zlib.error on anything else.    *)
(***************************************************************************)
Adler32(b) ==
    LET Op(st, i) == LET a == (st[1] + b[i]) % 65521 IN <<a, (st[2] + a) % 65521>>
        end == FoldRange(Op, <<1, 0>>, 1, Len(b))
    IN  <<end[2] \div 256, end[2] % 256, end[1] \div 256, end[1] % 256>>

compress(b) ==
    << 120, 156, 1, Len(b) % 256, Len(b) \div 256,
       255 - (Len(b) % 256), 255 - (Len(b) \div 256) >>
    \o b \o Adler32(b)

decompress(z) ==
    IF Len(z) < 2 THEN Raise("zlib.error")
    ELSE IF z[1] % 16 # 8 \/ z[1] \div 16 > 7
            \/ (z[1] * 256 + z[2]) % 31 # 0 \/ (z[2] \div 32) % 2 = 1
         THEN Raise("zlib.error")
    ELSE IF Len(z) < 7 \/ z[3] # 1 THEN Raise("zlib.error")
    ELSE LET n == z[4] + 256 * z[5] IN
         IF z[6] # 255 - z[4] \/ z[7] # 255 - z[5] THEN Raise("zlib.error")
         ELSE IF Len(z) < 7 + n + 4 THEN Raise("zlib.error")
         ELSE LET data == SubSeq(z, 8, 7 + n) IN
              IF SubSeq(z, 8 + n, 11 + n) # Adler32(data)
              THEN Raise("zlib.error")
              ELSE Ok(data)

(***************************************************************************)
(* Python values.  Every value is a record of the same shape: its kind k,  *)
(* the identity id of the object (0 for None and numbers, which pickle     *)
(* never memoizes), a number n, a string s and the sequence of its items.  *)
(* Two occurrences with the same id are the same object.  A dict's items   *)
(* are its keys and values in insertion order: k1, v1, k2, v2, ...         *)
(***************************************************************************)
Mk(k, id, n, s, items) == [k |-> k, id |-> id, n |-> n, s |-> s, items |-> items]

NoneV == Mk("none", 0, 0, <<>>, <<>>)
IntV(n) == Mk("int", 0, n, <<>>, <<>>)
\* True (n = 1) and False (n = 0)
BoolV(n) == Mk("bool", 0, n, <<>>, <<>>)
StrV(id, s) == Mk("str", id, 0, s, <<>>)
ListV(id, items) == Mk("list", id, 0, <<>>, items)
DictV(id, items) == Mk("dict", id, 0, <<>>, items)
TupleV(id, items) == Mk("tuple", id, 0, <<>>, items)
\* A module-level function (n = 0) or class (n = 1): its module's name and
\* its qualified name, the two string objects pickle writes for it.
GlobalV(id, isclass, module, name) == Mk("global", id, isclass, <<>>, <<module, name>>)
\* An instance without attributes of the class cls.
ObjV(id, cls) == Mk("obj", id, 0, <<>>, <<cls>>)

\* The string objects the interpreter holds for the names below.
PicklefieldName ==
    StrV(90, <<101, 118, 101, 110, 110, 105, 97, 46, 117, 116, 105, 108, 115,
               46, 112, 105, 99, 107, 108, 101, 102, 105, 101, 108, 100>>)
ObjectWrapperName ==
    StrV(91, <<95, 79, 98, 106, 101, 99, 116, 87, 114, 97, 112, 112, 101, 114>>)
ObjSlotName == StrV(92, <<95, 111, 98, 106>>)
WorldName == StrV(93, <<119, 111, 114, 108, 100>>)
HookName == StrV(94, <<104, 111, 111, 107>>)
RoomName == StrV(95, <<82, 111, 111, 109>>)
PlainName == StrV(96, <<80, 108, 97, 105, 110>>)
SealedName == StrV(99, <<83, 101, 97, 108, 101, 100>>)

\* class _ObjectWrapper(object): __slots__ = ("_obj",)
ObjectWrapperClass == GlobalV(80, 1, PicklefieldName, ObjectWrapperName)
\* What the game directory defines: a function world.hook, a class
\* world.Room that defines prepare_database_save, a class world.Plain
\* that does not, and a class world.Sealed whose __deepcopy__ raises
\* TypeError.
HookFn == GlobalV(81, 0, WorldName, HookName)
RoomClass == GlobalV(82, 1, WorldName, RoomName)
PlainClass == GlobalV(83, 1, WorldName, PlainName)
SealedClass == GlobalV(85, 1, WorldName, SealedName)
Globals == {ObjectWrapperClass, HookFn, RoomClass, PlainClass, SealedClass}
\* A function defined inside another one: no module attribute leads to it.
LocalFn == GlobalV(84, 0, WorldName, StrV(98, <<60, 108, 111, 99, 97, 108, 115, 62>>))

\* _ObjectWrapper(obj): the one slot _obj holds obj.
ObjectWrapper(id, obj) == Mk("wrapper", id, 0, <<>>, <<obj>>)

\* hasattr(obj, "prepare_database_save")
HasPrepareDatabaseSave(obj) ==
    \/ obj = RoomClass
    \/ obj.k = "obj" /\ obj.items[1] = RoomClass

\* callable(obj): functions and classes are, the other values are not.
Callable(obj) == obj.k = "global"

(***************************************************************************)
(* Python's == on values: identity plays no part, a dict's order neither.  *)
(* Functions and classes are equal when they are the same global; an       *)
(* instance is compared by its class and attributes; a PickledObject is a  *)
(* str and equal to the str of the same text.                              *)
(***************************************************************************)
RECURSIVE ValEq(_, _)
ValEq(a, b) ==
    /\ a.k = b.k
    /\ (a.k = "str" \/ a.n = b.n)
    /\ a.s = b.s
    /\ Len(a.items) = Len(b.items)
    /\ IF a.k = "dict"
       THEN \A i \in 1..(Len(a.items) \div 2) :
                \E j \in 1..(Len(b.items) \div 2) :
                    /\ ValEq(a.items[2 * i - 1], b.items[2 * j - 1])
                    /\ ValEq(a.items[2 * i], b.items[2 * j])
       ELSE \A i \in 1..Len(a.items) : ValEq(a.items[i], b.items[i])

(***************************************************************************)
(* copy.deepcopy: None, numbers, strings, functions and classes are        *)
(* returned as they are; a list, dict, tuple or instance is rebuilt as a   *)
(* new object with deep-copied items, each object copied once (the memo),  *)
(* so that the copy shares sub-objects exactly where the original does.    *)
(* A live database object (kind dbobj, n its primary key) cannot be        *)
(* copied: copy.Error, as the comment in dbsafe_encode says.  An instance  *)
(* of world.Sealed cannot either: its __deepcopy__ raises TypeError.  The  *)
(* first object met that cannot be copied decides the error.               *)
(***************************************************************************)
DbObjV(id, pk) == Mk("dbobj", id, pk, <<>>, <<>>)

Atomic(v) == v.k \in {"none", "int", "bool", "str", "global"}

RECURSIVE CopyFailure(_)
\* The error deepcopy(v) raises, "" when it raises none.
CopyFailure(v) ==
    IF v.k = "dbobj" THEN "copy.Error"
    ELSE IF v.k = "obj" /\ v.items[1] = SealedClass THEN "TypeError"
    ELSE LET failing == {i \in 1..Len(v.items) : CopyFailure(v.items[i]) # ""}
         IN  IF failing = {} THEN ""
             ELSE CopyFailure(v.items[CHOOSE i \in failing : \A j \in failing : i <= j])

Copyable(v) == CopyFailure(v) = ""

RECURSIVE DeepCopied(_)
DeepCopied(v) ==
    IF Atomic(v) THEN v
    ELSE [v EXCEPT !.id = v.id + 100,
                   !.items = [i \in 1..Len(v.items) |-> DeepCopied(v.items[i])]]

deepcopy(v) == IF Copyable(v) THEN Ok(DeepCopied(v)) ELSE Raise(CopyFailure(v))

(***************************************************************************)
(* pickle.dumps(value, protocol=DEFAULT_PROTOCOL), as the C pickler writes *)
(* it.  None and numbers are written in place.  Every other object is      *)
(* looked up in the memo by identity first: a second occurrence of an      *)
(* object is written as BINGET of its memo index, a first occurrence is    *)
(* written out and memoized.  memo is the sequence of the identities       *)
(* memoized so far (0 for an object the pickler made itself, which nothing *)
(* refers to again).                                                       *)
(***************************************************************************)
MemoIndex(memo, id) == CHOOSE i \in 1..Len(memo) : memo[i] = id
InMemo(memo, id) == \E i \in 1..Len(memo) : memo[i] = id

RECURSIVE save(_, _)
RECURSIVE SaveAll(_, _, _)

\* The items from the i-th on, one after the other, the memo threaded through.
SaveAll(items, i, memo) ==
    IF i > Len(items) THEN [out |-> <<>>, memo |-> memo]
    ELSE LET one == save(items[i], memo)
             rest == SaveAll(items, i + 1, one.memo)
         IN  [out |-> one.out \o rest.out, memo |-> rest.memo]

save(v, memo) ==
    CASE v.k = "none" -> [out |-> <<78>>, memo |-> memo]
      [] v.k = "int" ->
            [out |-> IF v.n < 256 THEN <<75, v.n>>
                     ELSE <<77, v.n % 256, v.n \div 256>>,
             memo |-> memo]
      [] v.k = "bool" ->
            \* NEWTRUE, NEWFALSE
            [out |-> <<IF v.n = 1 THEN 136 ELSE 137>>, memo |-> memo]
      [] v.k \notin {"none", "int", "bool"} /\ InMemo(memo, v.id) ->
            [out |-> <<104, MemoIndex(memo, v.id) - 1>>, memo |-> memo]
      [] v.k = "str" ->
            \* SHORT_BINUNICODE, MEMOIZE
            [out |-> <<140, Len(v.s)>> \o v.s \o <<148>>,
             memo |-> Append(memo, v.id)]
      [] v.k = "list" ->
            \* EMPTY_LIST, MEMOIZE; one item: APPEND; more: MARK .. APPENDS
            LET its == SaveAll(v.items, 1, Append(memo, v.id)) IN
            [out |-> <<93, 148>> \o
                     (IF Len(v.items) = 0 THEN <<>>
                      ELSE IF Len(v.items) = 1 THEN its.out \o <<97>>
                      ELSE <<40>> \o its.out \o <<101>>),
             memo |-> its.memo]
      [] v.k = "dict" ->
            \* EMPTY_DICT, MEMOIZE; one pair: SETITEM; more: MARK .. SETITEMS
            LET its == SaveAll(v.items, 1, Append(memo, v.id)) IN
            [out |-> <<125, 148>> \o
                     (IF Len(v.items) = 0 THEN <<>>
                      ELSE IF Len(v.items) = 2 THEN its.out \o <<115>>
                      ELSE <<40>> \o its.out \o <<117>>),
             memo |-> its.memo]
      [] v.k = "tuple" ->
            \* EMPTY_TUPLE; TUPLE1..TUPLE3; MARK .. TUPLE; MEMOIZE
            LET its == SaveAll(v.items, 1, memo) IN
            IF Len(v.items) = 0 THEN [out |-> <<41>>, memo |-> memo]
            ELSE [out |-> (IF Len(v.items) <= 3
                           THEN its.out \o <<132 + Len(v.items)>>
                           ELSE <<40>> \o its.out \o <<116>>) \o <<148>>,
                  memo |-> Append(its.memo, v.id)]
      [] v.k = "global" ->
            \* the module's name, the qualified name, STACK_GLOBAL, MEMOIZE
            LET its == SaveAll(v.items, 1, memo) IN
            [out |-> its.out \o <<147, 148>>, memo |-> Append(its.memo, v.id)]
      [] v.k = "obj" ->
            \* copyreg.__newobj__: the class, EMPTY_TUPLE, NEWOBJ, MEMOIZE;
            \* no attributes, no state
            LET cls == save(v.items[1], memo) IN
            [out |-> cls.out \o <<41, 129, 148>>,
             memo |-> Append(cls.memo, v.id)]
      [] v.k = "wrapper" ->
            \* the class, EMPTY_TUPLE, NEWOBJ, MEMOIZE, then the state of an
            \* object with __slots__: (None, {"_obj": obj}), and BUILD
            LET cls == save(ObjectWrapperClass, memo)
                key == save(ObjSlotName, cls.memo \o <<v.id, 0>>)
                obj == save(v.items[1], key.memo)
            IN  [out |-> cls.out \o <<41, 129, 148>> \o <<78, 125, 148>>
                         \o key.out \o obj.out \o <<115, 134, 148, 98>>,
                 memo |-> Append(obj.memo, 0)]

\* Whether pickle can write the value: no live database object in it, and
\* every function and class in it is found under its name (save_global).
RECURSIVE Picklable(_)
Picklable(v) ==
    /\ v.k # "dbobj"
    /\ IF v.k = "global" THEN v \in Globals
       ELSE \A i \in 1..Len(v.items) : Picklable(v.items[i])

LittleEndian8(n) == <<n % 256, n \div 256, 0, 0, 0, 0, 0, 0>>

\* PROTO 4, the body in one FRAME when it has at least 4 bytes, STOP.
dumps(v) ==
    IF ~Picklable(v) THEN Raise("PicklingError")
    ELSE LET body == save(v, <<>>).out \o <<46>> IN
         Ok(<<128, DEFAULT_PROTOCOL>> \o
            (IF Len(body) >= 4 THEN <<149>> \o LittleEndian8(Len(body)) ELSE <<>>)
            \o body)

(***************************************************************************)
(* pickle.loads, as the C unpickler runs it: a stack machine over the      *)
(* bytes with a stack (MARK is an entry of its own), a memo and a counter  *)
(* for the identities of the objects it creates.  An opcode that changes   *)
(* an object (APPEND, SETITEM, BUILD) changes every reference to it, on    *)
(* the stack and in the memo.  Opcodes that protocol 4 never writes for    *)
(* the values above are answered with UnpicklingError.                     *)
(***************************************************************************)
Mark == Mk("mark", 0, 0, <<>>, <<>>)

RECURSIVE Subst(_, _, _)
Subst(v, id, new) ==
    IF v.id = id THEN new
    ELSE IF v.items = <<>> THEN v
    ELSE [v EXCEPT !.items = [i \in 1..Len(v.items) |-> Subst(v.items[i], id, new)]]

SubstAll(vs, id, new) == [i \in 1..Len(vs) |-> Subst(vs[i], id, new)]

\* The position of the topmost MARK of the stack, 0 without one.
Fence(stack) ==
    LET marks == {i \in 1..Len(stack) : stack[i].k = "mark"} IN
    IF marks = {} THEN 0 ELSE CHOOSE i \in marks : \A j \in marks : j <= i

\* UTF-8 as PyUnicode_DecodeUTF8(.., "surrogatepass") accepts it.
Utf8Step(s, st, i) ==
    LET c == s[i] IN
    IF ~st.ok THEN st
    ELSE IF st.need > 0 THEN
        IF c >= st.lo /\ c <= st.hi
        THEN [st EXCEPT !.need = @ - 1, !.lo = 128, !.hi = 191]
        ELSE [st EXCEPT !.ok = FALSE]
    ELSE IF c < 128 THEN st
    ELSE IF c >= 194 /\ c <= 223 THEN [st EXCEPT !.need = 1]
    ELSE IF c >= 224 /\ c <= 239
         THEN [st EXCEPT !.need = 2, !.lo = IF c = 224 THEN 160 ELSE 128]
    ELSE IF c >= 240 /\ c <= 244
         THEN [st EXCEPT !.need = 3, !.lo = IF c = 240 THEN 144 ELSE 128,
                         !.hi = IF c = 244 THEN 143 ELSE 191]
    ELSE [st EXCEPT !.ok = FALSE]

ValidUtf8(s) ==
    LET Op(st, i) == Utf8Step(s, st, i)
        end == FoldRange(Op, [ok |-> TRUE, need |-> 0, lo |-> 128, hi |-> 191],
                         1, Len(s))
    IN  end.ok /\ end.need = 0

RECURSIVE Hashable(_)
Hashable(v) ==
    \/ v.k \in {"none", "int", "bool", "str", "global", "obj"}
    \/ v.k = "tuple" /\ \A i \in 1..Len(v.items) : Hashable(v.items[i])

\* d[key] = val on a dict's items: an equal key keeps its place.
DictSet(items, key, val) ==
    LET hit == {i \in 1..(Len(items) \div 2) : ValEq(items[2 * i - 1], key)} IN
    IF hit = {} THEN items \o <<key, val>>
    ELSE [items EXCEPT ![2 * (CHOOSE i \in hit : TRUE)] = val]

\* PyObject_SetItem(target, key, val), pair after pair: the new items of
\* the target, or an error.
RECURSIVE SetItems(_, _, _)
SetItems(target, pairs, i) ==
    IF i > Len(pairs) THEN Ok(target.items)
    ELSE LET key == pairs[i]
             val == pairs[i + 1]
         IN  IF target.k = "dict" THEN
                 IF ~Hashable(key) THEN Raise("TypeError")
                 ELSE SetItems([target EXCEPT !.items = DictSet(@, key, val)],
                               pairs, i + 2)
             ELSE IF target.k = "list" THEN
                 IF key.k # "int" THEN Raise("TypeError")
                 ELSE IF key.n >= Len(target.items) THEN Raise("IndexError")
                 ELSE SetItems([target EXCEPT !.items[key.n + 1] = val],
                               pairs, i + 2)
             ELSE Raise("TypeError")

\* find_class(module, name): what the process can import.
FindClass(module, name) ==
    LET found == {g \in Globals : g.items[1].s = module.s /\ g.items[2].s = name.s}
    IN  IF found = {} THEN Raise("AttributeError")
        ELSE Ok(CHOOSE g \in found : TRUE)

\* setattr(inst, key, val) for every pair of a state dict.
RECURSIVE SetAttrs(_, _, _)
SetAttrs(inst, pairs, i) ==
    IF i > Len(pairs) THEN Ok(inst)
    ELSE IF pairs[i].k # "str" THEN Raise("TypeError")
    ELSE IF inst.k = "obj" THEN
        SetAttrs([inst EXCEPT !.items =
                      <<inst.items[1]>> \o DictSet(Tail(@), pairs[i], pairs[i + 1])],
                 pairs, i + 2)
    ELSE IF inst.k = "wrapper" /\ pairs[i].s = ObjSlotName.s THEN
        SetAttrs([inst EXCEPT !.items = <<pairs[i + 1]>>], pairs, i + 2)
    ELSE IF inst.k = "global" THEN SetAttrs(inst, pairs, i + 2)
    ELSE Raise("AttributeError")

\* BUILD without __setstate__: the state is a dict for inst.__dict__, None,
\* or a pair (state, slotstate).
Build(inst, state) ==
    LET two == state.k = "tuple" /\ Len(state.items) = 2
        st == IF two THEN state.items[1] ELSE state
        slot == IF two THEN state.items[2] ELSE NoneV
        hasdict == inst.k = "obj" \/ inst.k = "global"
        first ==
            IF st.k = "none" THEN Ok(inst)
            ELSE IF st.k # "dict" THEN Raise("UnpicklingError")
            ELSE IF ~hasdict THEN Raise("AttributeError")
            ELSE IF inst.k = "global" /\ inst.n = 1 /\ st.items # <<>>
                 THEN Raise("TypeError")
            ELSE SetAttrs(inst, st.items, 1)
    IN  IF ~first.ok \/ ~two THEN first
        ELSE IF slot.k # "dict" THEN Raise("UnpicklingError")
        ELSE SetAttrs(first.val, slot.items, 1)

\* The machine: the next byte to read, the stack, the memo, the objects made.
Machine(pos, stack, memo, made) ==
    [pos |-> pos, stack |-> stack, memo |-> memo, made |-> made]

Go(m) == [st |-> "run", m |-> m, res |-> Raise("")]
Halt(r) == [st |-> "halt", m |-> Machine(0, <<>>, <<>>, 0), res |-> r]

\* An object changed in place: every reference to it sees the change.
Mutate(m, pos, stack, new) ==
    IF new.id = 0 THEN Go(Machine(pos, stack, m.memo, m.made))
    ELSE Go(Machine(pos, SubstAll(stack, new.id, new),
                    SubstAll(m.memo, new.id, new), m.made))

\* One opcode.
Step(b, m) ==
    LET pos == m.pos
        stack == m.stack
        size == Len(stack)
        fence == Fence(stack)
        above == size - fence
        avail == Len(b) - pos
        op == b[pos]
        fresh == 200 + m.made
        Push(v, n) == Go(Machine(pos + 1 + n, Append(stack, v), m.memo, m.made))
        New(v, n) == Go(Machine(pos + 1 + n, Append(stack, v), m.memo, m.made + 1))
        Under == Halt(Raise("UnpicklingError"))
    IN
    CASE op = 128 ->                                             \* PROTO
            IF avail < 1 THEN Halt(Raise("EOFError"))
            ELSE IF b[pos + 1] > 5 THEN Halt(Raise("ValueError"))
            ELSE Go([m EXCEPT !.pos = pos + 2])
      [] op = 149 ->                                             \* FRAME
            IF avail < 8 THEN Halt(Raise("EOFError"))
            ELSE IF \E i \in 4..8 : b[pos + i] # 0 THEN Halt(Raise("UnpicklingError"))
            ELSE IF avail - 8 < b[pos + 1] + 256 * b[pos + 2] + 65536 * b[pos + 3]
                 THEN Halt(Raise("UnpicklingError"))
            ELSE Go([m EXCEPT !.pos = pos + 9])
      [] op = 78 -> Push(NoneV, 0)                               \* NONE
      [] op \in {136, 137} -> Push(BoolV(137 - op), 0)           \* NEWTRUE, NEWFALSE
      [] op = 75 ->                                              \* BININT1
            IF avail < 1 THEN Halt(Raise("EOFError"))
            ELSE Push(IntV(b[pos + 1]), 1)
      [] op = 77 ->                                              \* BININT2
            IF avail < 2 THEN Halt(Raise("EOFError"))
            ELSE Push(IntV(b[pos + 1] + 256 * b[pos + 2]), 2)
      [] op = 140 ->                                             \* SHORT_BINUNICODE
            IF avail < 1 \/ avail - 1 < b[pos + 1] THEN Halt(Raise("EOFError"))
            ELSE LET s == SubSeq(b, pos + 2, pos + 1 + b[pos + 1]) IN
                 IF ~ValidUtf8(s) THEN Halt(Raise("UnicodeDecodeError"))
                 ELSE New(StrV(fresh, s), 1 + Len(s))
      [] op = 148 ->                                             \* MEMOIZE
            IF above < 1 THEN Under
            ELSE Go([m EXCEPT !.pos = pos + 1, !.memo = Append(@, stack[size])])
      [] op = 104 ->                                             \* BINGET
            IF avail < 1 THEN Halt(Raise("EOFError"))
            ELSE IF b[pos + 1] >= Len(m.memo) THEN Halt(Raise("UnpicklingError"))
            ELSE Push(m.memo[b[pos + 1] + 1], 1)
      [] op = 93 -> New(ListV(fresh, <<>>), 0)                   \* EMPTY_LIST
      [] op = 125 -> New(DictV(fresh, <<>>), 0)                  \* EMPTY_DICT
      [] op = 41 -> Push(TupleV(0, <<>>), 0)                     \* EMPTY_TUPLE
      [] op = 40 -> Push(Mark, 0)                                \* MARK
      [] op \in {97, 101} ->                                     \* APPEND, APPENDS
            LET x == IF op = 97 THEN size - 1 ELSE fence - 1     \* the list's place
                rest == IF op = 97 THEN <<stack[size]>> ELSE SubSeq(stack, fence + 1, size)
            IN  IF op = 97 /\ above < 2 THEN Under
                ELSE IF op = 101 /\ (fence = 0 \/ x <= Fence(Take(stack, fence - 1)))
                     THEN Under
                ELSE IF rest = <<>> THEN Go(Machine(pos + 1, Take(stack, x), m.memo, m.made))
                ELSE IF stack[x].k # "list" THEN Halt(Raise("AttributeError"))
                ELSE Mutate(m, pos + 1, Take(stack, x),
                            [stack[x] EXCEPT !.items = @ \o rest])
      [] op \in {115, 117} ->                                    \* SETITEM, SETITEMS
            LET x == IF op = 115 THEN size - 2 ELSE fence - 1
                rest == IF op = 115 THEN SubSeq(stack, size - 1, size)
                        ELSE SubSeq(stack, fence + 1, size)
            IN  IF op = 115 /\ above < 3 THEN Under
                ELSE IF op = 117 /\ (fence = 0 \/ x <= Fence(Take(stack, fence - 1)))
                     THEN Under
                ELSE IF rest = <<>> THEN Go(Machine(pos + 1, Take(stack, x), m.memo, m.made))
                ELSE IF Len(rest) % 2 # 0 THEN Under
                ELSE LET set == SetItems(stack[x], rest, 1) IN
                     IF ~set.ok THEN Halt(set)
                     ELSE Mutate(m, pos + 1, Take(stack, x),
                                 [stack[x] EXCEPT !.items = set.val])
      [] op \in {133, 134, 135} ->                               \* TUPLE1..TUPLE3
            IF above < op - 132 THEN Under
            ELSE Go(Machine(pos + 1,
                            Append(Take(stack, size - (op - 132)),
                                   TupleV(fresh, SubSeq(stack, size - (op - 132) + 1, size))),
                            m.memo, m.made + 1))
      [] op = 116 ->                                             \* TUPLE
            IF fence = 0 THEN Under
            ELSE Go(Machine(pos + 1,
                            Append(Take(stack, fence - 1),
                                   TupleV(IF fence = size THEN 0 ELSE fresh,
                                          SubSeq(stack, fence + 1, size))),
                            m.memo, m.made + 1))
      [] op = 147 ->                                             \* STACK_GLOBAL
            IF above < 2 THEN Under
            ELSE IF stack[size].k # "str" \/ stack[size - 1].k # "str" THEN Under
            ELSE LET g == FindClass(stack[size - 1], stack[size]) IN
                 IF ~g.ok THEN Halt(g)
                 ELSE Go(Machine(pos + 1, Append(Take(stack, size - 2), g.val),
                                 m.memo, m.made))
      [] op = 129 ->                                             \* NEWOBJ
            IF above < 2 THEN Under
            ELSE LET args == stack[size]
                     cls == stack[size - 1]
                 IN  IF args.k # "tuple" THEN Under
                     ELSE IF cls.k # "global" \/ cls.n # 1 THEN Under
                     ELSE IF cls # ObjectWrapperClass /\ args.items # <<>>
                          THEN Halt(Raise("TypeError"))
                     ELSE Go(Machine(pos + 1,
                                     Append(Take(stack, size - 2),
                                            IF cls = ObjectWrapperClass
                                            THEN Mk("wrapper", fresh, 0, <<>>, <<>>)
                                            ELSE ObjV(fresh, cls)),
                                     m.memo, m.made + 1))
      [] op = 98 ->                                              \* BUILD
            IF above < 2 THEN Under
            ELSE LET built == Build(stack[size - 1], stack[size]) IN
                 IF ~built.ok THEN Halt(built)
                 ELSE Mutate(m, pos + 1, Take(stack, size - 1), built.val)
      [] op = 48 ->                                              \* POP
            IF size < 1 THEN Under
            ELSE Go(Machine(pos + 1, Take(stack, size - 1), m.memo, m.made))
      [] op = 50 ->                                              \* DUP
            IF above < 1 THEN Under ELSE Push(stack[size], 0)
      [] op = 46 ->                                              \* STOP
            IF above < 1 THEN Under ELSE Halt(Ok(stack[size]))
      [] OTHER -> Halt(Raise("UnpicklingError"))

\* Every opcode takes at least one byte: Len(b) + 1 steps end the run.
loads(b) ==
    LET Op(r, i) ==
            IF r.st # "run" THEN r
            ELSE IF r.m.pos > Len(b) THEN Halt(Raise("EOFError"))
            ELSE Step(b, r.m)
    IN  FoldRange(Op, Go(Machine(1, <<>>, <<>>, 0)), 1, Len(b) + 1).res


(***************************************************************************)
(* picklefield.py                                                          *)
(***************************************************************************)
\* class PickledObject(str): a str that is marked (n = 1) as an encoded
\* payload.  A plain str has n = 0.
PickledObject(text) == Mk("str", 300, 1, text, <<>>)
PlainStr(text) == Mk("str", 301, 0, text, <<>>)
IsPickledObject(v) == v.k = "str" /\ v.n = 1
IsObjectWrapper(v) == v.k = "wrapper"

\* evennia.utils.dbserialize.pack_dbobj: a database object becomes the
\* placeholder ("__packed_dbobj__", pk), anything else is returned as it is.
PackedMarker ==
    StrV(97, <<95, 95, 112, 97, 99, 107, 101, 100, 95, 100, 98, 111, 98, 106, 95, 95>>)
pack_dbobj(v) ==
    IF v.k = "dbobj" THEN TupleV(v.id + 100, <<PackedMarker, IntV(v.n)>>) ELSE v

wrap_conflictual_object(obj) ==
    IF HasPrepareDatabaseSave(obj) \/ Callable(obj)
    THEN ObjectWrapper(obj.id + 400, obj)
    ELSE obj

\* try deepcopy, except CopyError: pack_dbobj; dumps; compress; b64encode.
dbsafe_encode(value, compress_object) ==
    LET copied == deepcopy(value)
        safe == IF copied.ok THEN copied
                ELSE IF copied.err = "copy.Error" THEN Ok(pack_dbobj(value))
                ELSE copied
        dumped == IF safe.ok THEN dumps(safe.val) ELSE safe
    IN  IF ~dumped.ok THEN dumped
        ELSE Ok(PickledObject(b64encode(IF compress_object
                                        THEN compress(dumped.val)
                                        ELSE dumped.val)))

\* dbsafe_decode without its third line.
dbsafe_decode_without_decompress(value, compress_object) ==
    IF value.k # "str" THEN Raise("AttributeError")
    ELSE LET raw == b64decode(value.s)
         IN  IF ~raw.ok THEN raw ELSE loads(raw.val)

\* value.encode(); b64decode; decompress; loads.
dbsafe_decode(value, compress_object) ==
    IF value.k # "str" THEN Raise("AttributeError")
    ELSE LET raw == b64decode(value.s)
             data == IF raw.ok /\ compress_object THEN decompress(raw.val) ELSE raw
         IN  IF ~data.ok THEN data ELSE loads(data.val)

\* The outcome r of a method of the field together with the calls the
\* method made on the way: <<"dbsafe_encode">>, <<"dbsafe_decode">> or
\* <<"Field.get_db_prep_lookup", lookup_type, value>>.
Traced(r, calls) == [ok |-> r.ok, err |-> r.err, val |-> r.val, calls |-> calls]

\* from_db_value with the wrapper left on.
from_db_value_keeps_wrapper(value, self_compress) ==
    IF value.k = "none" THEN Traced(Ok(value), <<>>)
    ELSE LET decoded == dbsafe_decode(value, self_compress) IN
         IF ~decoded.ok THEN
             IF IsPickledObject(value) THEN Traced(decoded, << <<"dbsafe_decode">> >>)
             ELSE Traced(Ok(value), << <<"dbsafe_decode">> >>)
         ELSE Traced(decoded, << <<"dbsafe_decode">> >>)

\* from_db_value with a bare raise in its except clause.
from_db_value_raises(value, self_compress) ==
    IF value.k = "none" THEN Traced(Ok(value), <<>>)
    ELSE LET decoded == dbsafe_decode(value, self_compress) IN
         IF ~decoded.ok THEN Traced(decoded, << <<"dbsafe_decode">> >>)
         ELSE IF IsObjectWrapper(decoded.val) THEN
             IF decoded.val.items = <<>>
             THEN Traced(Raise("AttributeError"), << <<"dbsafe_decode">> >>)
             ELSE Traced(Ok(decoded.val.items[1]), << <<"dbsafe_decode">> >>)
         ELSE Traced(decoded, << <<"dbsafe_decode">> >>)

\* PickledObjectField.from_db_value; self_compress is the field's compress.
from_db_value(value, self_compress) ==
    IF value.k = "none" THEN Traced(Ok(value), <<>>)
    ELSE LET decoded == dbsafe_decode(value, self_compress) IN
         IF ~decoded.ok THEN
             \* except Exception: a definite pickle lets the error through,
             \* anything else is returned as it came
             IF IsPickledObject(value) THEN Traced(decoded, << <<"dbsafe_decode">> >>)
             ELSE Traced(Ok(value), << <<"dbsafe_decode">> >>)
         ELSE IF IsObjectWrapper(decoded.val) THEN
             \* value._obj: an unset slot is an AttributeError
             IF decoded.val.items = <<>>
             THEN Traced(Raise("AttributeError"), << <<"dbsafe_decode">> >>)
             ELSE Traced(Ok(decoded.val.items[1]), << <<"dbsafe_decode">> >>)
         ELSE Traced(decoded, << <<"dbsafe_decode">> >>)

\* PickledObjectField.pre_save: the instance's attribute, wrapped if needed.
pre_save(attribute) == wrap_conflictual_object(attribute)

\* get_db_prep_value without its test.
get_db_prep_value_always_encodes(value, self_compress) ==
    Traced(dbsafe_encode(value, self_compress), << <<"dbsafe_encode">> >>)

\* get_db_prep_value testing the value's truth instead of "is not None".
get_db_prep_value_empty_as_null(value, self_compress) ==
    IF IsPickledObject(value) THEN Traced(Ok(value), <<>>)
    ELSE IF \/ value.k = "none"
            \/ value.k \in {"str", "list", "dict", "tuple"} /\ value.s = <<>> /\ value.items = <<>>
    THEN Traced(Ok(NoneV), <<>>)
    ELSE Traced(dbsafe_encode(value, self_compress), << <<"dbsafe_encode">> >>)

\* get_db_prep_value if force_str made a plain str of the PickledObject.
get_db_prep_value_plain_str(value, self_compress) ==
    IF value.k # "none" /\ ~IsPickledObject(value)
    THEN LET r == dbsafe_encode(value, self_compress) IN
         Traced(IF r.ok THEN Ok(PlainStr(r.val.s)) ELSE r, << <<"dbsafe_encode">> >>)
    ELSE Traced(Ok(value), <<>>)

\* PickledObjectField.get_db_prep_value; force_str returns a str as it is.
get_db_prep_value(value, self_compress) ==
    IF value.k # "none" /\ ~IsPickledObject(value)
    THEN Traced(dbsafe_encode(value, self_compress), << <<"dbsafe_encode">> >>)
    ELSE Traced(Ok(value), <<>>)

\* models.Field.get_db_prep_lookup is not part of this module: what it
\* makes of its arguments is left open, the call is what is recorded.
ParentLookup(lookup_type, value) == Mk("prepared", 0, 0, <<>>, <<value>>)

\* get_db_prep_lookup without its test.
get_db_prep_lookup_unrestricted(lookup_type, value) ==
    Traced(Ok(ParentLookup(lookup_type, value)),
           << <<"Field.get_db_prep_lookup", lookup_type, value>> >>)

\* PickledObjectField.get_db_prep_lookup
get_db_prep_lookup(lookup_type, value) ==
    IF lookup_type \notin {"exact", "in", "isnull"}
    THEN Traced(Raise("TypeError"), <<>>)
    ELSE Traced(Ok(ParentLookup(lookup_type, value)),
                << <<"Field.get_db_prep_lookup", lookup_type, value>> >>)

(***************************************************************************)
(* The admin form.  Texts are over printable ASCII without the backslash,  *)
(* without the double quote in what is typed and without "}" : no escape   *)
(* is ever written or read, and a "{" never closes.  Letters spell names,  *)
(* of which None is the only constant; no text spells True or False, a     *)
(* string prefix or a number with an exponent.                             *)
(***************************************************************************)
NoneText == <<78, 111, 110, 101>>

IsSpace(c) == c \in {9, 10, 11, 12, 13, 32}
IsDigit(c) == c >= 48 /\ c <= 57
IsLetter(c) == (c >= 65 /\ c <= 90) \/ (c >= 97 /\ c <= 122) \/ c = 95
IsAlnum(c) == IsDigit(c) \/ IsLetter(c)
IsQuote(c) == c = 39 \/ c = 34

\* The first position from i on where P does not hold, Len(s) + 1 if none.
RunEnd(P(_), s, i) ==
    LET J == {j \in i..Len(s) : ~P(s[j])} IN
    IF J = {} THEN Len(s) + 1 ELSE CHOOSE j \in J : \A k \in J : j <= k

\* The last position up to i where P does not hold, 0 if none.
RunStart(P(_), s, i) ==
    LET J == {j \in 1..i : ~P(s[j])} IN
    IF J = {} THEN 0 ELSE CHOOSE j \in J : \A k \in J : j >= k

\* str.strip(), and str.lstrip(" \t")
strip(s) == SubSeq(s, RunEnd(IsSpace, s, 1), RunStart(IsSpace, s, Len(s)))
lstrip(s) == LET Blank(c) == c = 32 \/ c = 9 IN Drop(s, RunEnd(Blank, s, 1) - 1)

\* The tokenizer skips blanks and tabs between tokens.
SkipBlank(s, i) == LET Blank(c) == c = 32 \/ c = 9 \/ c = 12 IN RunEnd(Blank, s, i)

RECURSIVE Decimal(_)
Decimal(n) == (IF n >= 10 THEN Decimal(n \div 10) ELSE <<>>) \o <<48 + (n % 10)>>

RECURSIVE Number(_, _)
Number(digits, acc) ==
    IF digits = <<>> THEN acc
    ELSE Number(Tail(digits), 10 * acc + (Head(digits) - 48))

RECURSIVE Join(_, _)
Join(texts, sep) ==
    IF texts = <<>> THEN <<>>
    ELSE IF Len(texts) = 1 THEN texts[1]
    ELSE texts[1] \o sep \o Join(Tail(texts), sep)

\* repr(value).  A str is written between single quotes, between double
\* quotes when it holds a single quote and no double one.
RECURSIVE repr(_)
repr(v) ==
    LET Parts == [i \in 1..Len(v.items) |-> repr(v.items[i])] IN
    CASE v.k = "none" -> NoneText
      [] v.k = "int" -> Decimal(v.n)
      [] v.k = "bool" -> IF v.n = 1 THEN <<84, 114, 117, 101>> ELSE <<70, 97, 108, 115, 101>>
      [] v.k = "str" ->
            LET q == IF (\E i \in 1..Len(v.s) : v.s[i] = 39)
                        /\ ~(\E i \in 1..Len(v.s) : v.s[i] = 34)
                     THEN 34 ELSE 39
            IN  <<q>> \o v.s \o <<q>>
      [] v.k = "list" -> <<91>> \o Join(Parts, <<44, 32>>) \o <<93>>
      [] v.k = "tuple" ->
            <<40>> \o Join(Parts, <<44, 32>>)
                   \o (IF Len(Parts) = 1 THEN <<44>> ELSE <<>>) \o <<41>>
      [] v.k = "dict" ->
            <<123>> \o Join([i \in 1..(Len(Parts) \div 2) |->
                                Parts[2 * i - 1] \o <<58, 32>> \o Parts[2 * i]],
                            <<44, 32>>) \o <<125>>

\* str(value): a str is itself, anything else its repr.
str(v) == IF v.k = "str" THEN v.s ELSE repr(v)

(***************************************************************************)
(* ast.literal_eval(text): the text is parsed as an expression list        *)
(* (SyntaxError if it is none), and the parsed tree is converted           *)
(* (ValueError if a node of it is no literal: a name, a subscript).        *)
(* The parser reads the text token by token with a stack of open frames.   *)
(***************************************************************************)
NoParse == [ok |-> FALSE, lit |-> FALSE, val |-> NoneV, pos |-> 0]
Parsed(lit, val, pos) == [ok |-> TRUE, lit |-> lit, val |-> val, pos |-> pos]

\* One string literal at i, where a quote stands: '...', "...", or
\* triple-quoted up to the first three quotes in a row.
ParseString(s, i) ==
    LET q == s[i]
        triple == i + 2 <= Len(s) /\ s[i + 1] = q /\ s[i + 2] = q
        Ends == IF triple
                THEN {k \in (i + 3)..(Len(s) - 2) :
                         s[k] = q /\ s[k + 1] = q /\ s[k + 2] = q}
                ELSE {k \in (i + 1)..Len(s) : s[k] = q}
        end == CHOOSE k \in Ends : \A j \in Ends : k <= j
    IN  IF Ends = {} THEN NoParse
        ELSE IF triple THEN Parsed(TRUE, SubSeq(s, i + 3, end - 1), end + 3)
        ELSE Parsed(TRUE, SubSeq(s, i + 1, end - 1), end + 1)

\* The parser's frame for the top level ("top"), an open list display
\* ("list") or an open subscript ("sub"): the items closed by a comma so
\* far, whether all of them are literals, the commas seen, and the
\* expression being read (have, cur, curlit; curstr: it is made of string
\* literals only, and a string literal next to it joins it).
Frame(kind) ==
    [kind |-> kind, items |-> <<>>, lit |-> TRUE, commas |-> 0,
     have |-> FALSE, cur |-> NoneV, curlit |-> TRUE, curstr |-> FALSE]

\* The frame with the expression being read, if any, added to the items.
Closed(f) ==
    IF f.have
    THEN [f EXCEPT !.items = Append(f.items, f.cur), !.lit = f.lit /\ f.curlit,
                   !.have = FALSE, !.curstr = FALSE]
    ELSE f

\* The frame after an atom: a number, a name or a string literal.
WithAtom(f, val, lit, isstr) ==
    IF f.have THEN [f EXCEPT !.cur = StrV(0, f.cur.s \o val.s)]
    ELSE [f EXCEPT !.have = TRUE, !.cur = val, !.curlit = lit, !.curstr = isstr]

Parser(pos, stack) == [st |-> "run", pos |-> pos, stack |-> stack]
SyntaxError == [st |-> "err", pos |-> 0, stack |-> <<>>]

\* One token: blanks are skipped, then a number, a name, a string literal,
\* a bracket or a comma is read at m.pos and the innermost frame changed.
ParseStep(s, m) ==
    LET j == SkipBlank(s, m.pos)
        depth == Len(m.stack)
        top == m.stack[depth]
        below == Take(m.stack, depth - 1)
        end == RunEnd(IsAlnum, s, j)
        tok == SubSeq(s, j, end - 1)
        strlit == ParseString(s, j)
        closed == Closed(top)
    IN  IF j > Len(s) THEN
            \* the end: nothing open, and an expression was read
            IF depth = 1 /\ closed.items # <<>>
            THEN [st |-> "end", pos |-> j, stack |-> <<closed>>]
            ELSE SyntaxError
        ELSE IF IsDigit(s[j]) THEN
            IF /\ ~top.have
               /\ \A n \in 1..Len(tok) : IsDigit(tok[n])
               /\ (tok[1] # 48 \/ \A n \in 1..Len(tok) : tok[n] = 48)
            THEN Parser(end, Append(below, WithAtom(top, IntV(Number(tok, 0)), TRUE, FALSE)))
            ELSE SyntaxError
        ELSE IF IsLetter(s[j]) THEN
            IF ~top.have
            THEN Parser(end, Append(below, WithAtom(top, NoneV, tok = NoneText, FALSE)))
            ELSE SyntaxError
        ELSE IF IsQuote(s[j]) THEN
            IF strlit.ok /\ (~top.have \/ top.curstr)
            THEN Parser(strlit.pos, Append(below, WithAtom(top, StrV(0, strlit.val), TRUE, TRUE)))
            ELSE SyntaxError
        ELSE IF s[j] = 91 THEN
            \* "[" opens a subscript after an expression, a list otherwise
            Parser(j + 1, Append(m.stack, Frame(IF top.have THEN "sub" ELSE "list")))
        ELSE IF s[j] = 93 THEN
            IF top.kind = "top" \/ (top.kind = "sub" /\ closed.items = <<>>)
            THEN SyntaxError
            ELSE LET outer == m.stack[depth - 1] IN
                 Parser(j + 1,
                        Append(Take(m.stack, depth - 2),
                               IF top.kind = "list"
                               THEN [outer EXCEPT !.have = TRUE,
                                                  !.cur = ListV(0, closed.items),
                                                  !.curlit = closed.lit,
                                                  !.curstr = FALSE]
                               ELSE [outer EXCEPT !.curlit = FALSE, !.curstr = FALSE]))
        ELSE IF s[j] = 44 THEN
            IF top.have
            THEN Parser(j + 1, Append(below, [closed EXCEPT !.commas = top.commas + 1]))
            ELSE SyntaxError
        ELSE SyntaxError

\* Every token takes at least one character: Len(s) + 1 steps end the run.
literal_eval(text) ==
    LET s == lstrip(text)
        Op(m, i) == IF m.st # "run" THEN m ELSE ParseStep(s, m)
        m == FoldRange(Op, Parser(1, <<Frame("top")>>), 1, Len(s) + 1)
        top == m.stack[1]
    IN  IF m.st # "end" THEN Raise("SyntaxError")
        ELSE IF ~top.lit THEN Raise("ValueError")
        ELSE Ok(IF top.commas = 0 THEN top.items[1] ELSE TupleV(0, top.items))

\* Textarea.format_value, and the template that prints it: nothing for
\* None and "", str(value) for anything else.
format_value(value) ==
    IF value.k = "none" \/ (value.k = "str" /\ value.s = <<>>) THEN <<>>
    ELSE str(value)

\* PickledWidget.render: the text in the text area.
render(value) ==
    LET repr_value == repr(value)
        evaluated == literal_eval(repr_value)
    IN  format_value(IF evaluated.ok THEN evaluated.val
                     ELSE StrV(0, repr_value))

\* CharField.clean of a field that is not required: the text, stripped.
CharField_clean(value) == Ok(StrV(0, strip(value)))

\* PickledFormField.clean
clean(value) ==
    LET cleaned_value == CharField_clean(value).val.s
        text == IF strip(cleaned_value) = <<>> THEN NoneText ELSE cleaned_value
        first == literal_eval(text)
        second == literal_eval(repr(StrV(0, text)))
    IN  IF first.ok \/ first.err \notin {"ValueError", "SyntaxError"} THEN first
        ELSE IF second.ok \/ second.err \notin {"ValueError", "SyntaxError"} THEN second
        ELSE Raise("ValidationError")

\* No value yet, and no outcome yet.
Unset == Mk("unset", 0, 0, <<>>, <<>>)
NoResult == [ok |-> FALSE, err |-> "unset", val |-> <<>>]

(***************************************************************************)
(* PickledObjectField.get_default.                                         *)
(***************************************************************************)
\* django.db.models.fields.NOT_PROVIDED: the field was declared without a
\* default.
NOT_PROVIDED == Mk("NOT_PROVIDED", 0, 0, <<>>, <<>>)

\* Field.has_default()
has_default(default) == default # NOT_PROVIDED

\* The object a producer returns when it is called for the nth time: a
\* class gives a new instance, world.hook a new dict, the local function a
\* new list.  Each call's object is a new one (400 + n is its identity).
Invoke(producer, n) ==
    IF producer.n = 1 THEN ObjV(400 + n, producer)
    ELSE IF producer = HookFn THEN DictV(400 + n, <<>>)
    ELSE ListV(400 + n, <<>>)

\* models.Field.get_default(), reached when the field has no default.
ParentDefault == Mk("inherited", 0, 0, <<>>, <<>>)

\* What a call of get_default gives: the result with the calls made, and
\* the number of times the producer has been called by then.
Defaulted(r, calls, produced) ==
    [ok |-> r.ok, err |-> r.err, val |-> r.val, calls |-> calls, produced |-> produced]

\* get_default that hands the default to the encoder, as it would any
\* other value of the field.
get_default_encoded(default, produced) ==
    IF has_default(default) THEN
        Defaulted(dbsafe_encode(default, FALSE), <<<<"dbsafe_encode">>>>, produced)
    ELSE Defaulted(Ok(ParentDefault), <<<<"Field.get_default">>>>, produced)

\* PickledObjectField.get_default; produced counts the calls of the
\* producer so far.
get_default(default, produced) ==
    IF has_default(default) THEN
        IF Callable(default) THEN
            Defaulted(Ok(Invoke(default, produced + 1)), <<<<"default">>>>, produced + 1)
        ELSE Defaulted(Ok(default), <<>>, produced)
    ELSE Defaulted(Ok(ParentDefault), <<<<"Field.get_default">>>>, produced)

(***************************************************************************)
(* containers.py: GlobalScriptContainer.  The database holds at most one   *)
(* global script (no object, no account) for a key: [pk, typeclass,        *)
(* kwargs, running, attributes], pk = 0 when there is none.  A script's    *)
(* kwargs are what it was created with.  Its attributes of category        *)
(* settings_hash are kept by name, <<>> for one not set.                   *)
(***************************************************************************)
\* The str objects of the names used below.
KeyName == StrV(201, <<107, 101, 121>>)
PersistentName == StrV(202, <<112, 101, 114, 115, 105, 115, 116, 101, 110, 116>>)
TypeclassName == StrV(203, <<116, 121, 112, 101, 99, 108, 97, 115, 115>>)
IntervalName == StrV(204, <<105, 110, 116, 101, 114, 118, 97, 108>>)
\* settings.BASE_SCRIPT_TYPECLASS, and the paths the game's settings name:
\* a class whose creation reports errors, and a module that is not there.
BASE_SCRIPT_TYPECLASS == StrV(205, <<116, 121, 112, 101, 99, 108, 97, 115, 115, 101, 115, 46, 115, 99, 114, 105, 112, 116, 115, 46, 83, 99, 114, 105, 112, 116>>)
FaultyPath == StrV(206, <<119, 111, 114, 108, 100, 46, 70, 97, 117, 108, 116, 121>>)
GhostPath == StrV(207, <<119, 111, 114, 108, 100, 46, 71, 104, 111, 115, 116>>)
\* The script keys, and the str object of each.
KeyText == [ticker |-> StrV(211, <<116, 105, 99, 107, 101, 114>>), faulty |-> StrV(212, <<102, 97, 117, 108, 116, 121>>),
            ghost |-> StrV(213, <<103, 104, 111, 115, 116>>), manual |-> StrV(214, <<109, 97, 110, 117, 97, 108>>)]

NoHash == <<>>
NoAttributes == [global_script_settings |-> NoHash, _global_script_settings |-> NoHash]
NoScript == [pk |-> 0, typeclass |-> NoneV, kwargs |-> NoneV, running |-> FALSE,
             attributes |-> NoAttributes]

\* dict.get(name, fallback) on the items of a dict
DictGet(items, name, fallback) ==
    LET hit == {i \in 1..(Len(items) \div 2) : ValEq(items[2 * i - 1], name)} IN
    IF hit = {} THEN fallback ELSE items[2 * (CHOOSE i \in hit : TRUE)]

\* str(b) of a bytes object: b'...' (b"..." when it holds ' and no "), a
\* printable character as it is, \ and the quote behind a \, tab, newline
\* and return as \t \n \r, any other byte as \xhh.
bytes_str(data) ==
    LET q == IF (\E i \in 1..Len(data) : data[i] = 39)
                /\ ~(\E i \in 1..Len(data) : data[i] = 34)
             THEN 34 ELSE 39
        Hex(d) == IF d < 10 THEN 48 + d ELSE 87 + d
        Escaped(c) ==
            IF c = q \/ c = 92 THEN <<92, c>>
            ELSE IF c = 9 THEN <<92, 116>>
            ELSE IF c = 10 THEN <<92, 110>>
            ELSE IF c = 13 THEN <<92, 114>>
            ELSE IF c < 32 \/ c >= 127 THEN <<92, 120, Hex(c \div 16), Hex(c % 16)>>
            ELSE <<c>>
        Add(acc, i) == acc \o Escaped(data[i])
    IN  <<98, q>> \o FoldRange(Add, <<>>, 1, Len(data)) \o <<q>>

\* evennia.utils.utils.class_from_module: the path of the class stands for
\* the class.
class_from_module(path) ==
    IF path.s \in {BASE_SCRIPT_TYPECLASS.s, FaultyPath.s} THEN Ok(path)
    ELSE Raise("ImportError")

\* typeclass.create(**kwargs) -> (script, errors): the new script is in
\* the database, not yet started; the faulty class reports errors and
\* leaves nothing behind.
create(typeclass, kwargs, pk) ==
    IF typeclass.s = FaultyPath.s
    THEN [script |-> NoScript, errors |-> TRUE]
    ELSE [script |-> [pk |-> pk, typeclass |-> typeclass, kwargs |-> kwargs,
                      running |-> FALSE, attributes |-> NoAttributes],
          errors |-> FALSE]

\* GlobalScriptContainer.__init__: loaded_data is settings.GLOBAL_SCRIPTS in
\* its order, a sequence of [key, data], with {} in the place of None.
container_init(GLOBAL_SCRIPTS) ==
    [i \in 1..Len(GLOBAL_SCRIPTS) |->
        [key |-> GLOBAL_SCRIPTS[i].key,
         data |-> IF GLOBAL_SCRIPTS[i].data = NoneV THEN DictV(220, <<>>)
                  ELSE GLOBAL_SCRIPTS[i].data]]

\* key in self.loaded_data, and self.loaded_data[key]
InLoadedData(loaded_data, key) == \E i \in 1..Len(loaded_data) : loaded_data[i].key = key
LoadedData(loaded_data, key) ==
    loaded_data[CHOOSE i \in 1..Len(loaded_data) : loaded_data[i].key = key].data

\* typeclass_storage before load_data has run.
NoStorage == [none |-> TRUE, classes |-> <<>>]

\* GlobalScriptContainer.load_data: the class of every key whose typeclass
\* can be imported; a key whose import fails is logged and left out.
load_data(loaded_data, typeclass_storage) ==
    IF ~typeclass_storage.none THEN typeclass_storage
    ELSE LET Imported(data) ==
                 class_from_module(DictGet(data.items, TypeclassName, BASE_SCRIPT_TYPECLASS))
             good == {i \in 1..Len(loaded_data) : Imported(loaded_data[i].data).ok}
         IN  [none |-> FALSE,
              classes |-> [key \in {loaded_data[i].key : i \in good} |->
                              Imported(LoadedData(loaded_data, key)).val]]

\* The outcome of a method of the container: what it returns or raises, and
\* the container and the database as it leaves them, s = [typeclass_storage,
\* scripts, next_pk].
Outcome(r, s) == [ok |-> r.ok, err |-> r.err, val |-> r.val, s |-> s]

\* kwargs = {**self.loaded_data[key]} with the key, and persistent unless
\* it is given.
ScriptKwargs(loaded_data, key) ==
    LET named == DictSet(LoadedData(loaded_data, key).items, KeyName, KeyText[key]) IN
    DictV(230, DictSet(named, PersistentName, DictGet(named, PersistentName, BoolV(1))))

\* GlobalScriptContainer._load_script; it returns the script's pk, 0 for
\* None.
_load_script(loaded_data, key, s) ==
    LET storage == load_data(loaded_data, s.typeclass_storage)
        loaded == [s EXCEPT !.typeclass_storage = storage]
    IN  IF key \notin DOMAIN storage.classes THEN Outcome(Raise("KeyError"), loaded)
        ELSE
        LET typeclass == storage.classes[key]
            script == s.scripts[key]
            kwargs == ScriptKwargs(loaded_data, key)
            compare_hash == bytes_str(dumps(kwargs).val)
            script_hash == script.attributes.global_script_settings
            \* if script: the hash is stored when there is none, and the
            \* script is stopped and deleted when the hash differs
            found == IF script.pk = 0 THEN script
                     ELSE IF script_hash = NoHash
                     THEN [script EXCEPT !.attributes.global_script_settings = compare_hash]
                     ELSE IF script_hash # compare_hash THEN NoScript
                     ELSE script
        IN  IF found.pk # 0
            THEN Outcome(Ok(found.pk), [loaded EXCEPT !.scripts[key] = found])
            ELSE LET made == create(typeclass, kwargs, s.next_pk) IN
                 IF made.errors
                 THEN Outcome(Ok(0), [loaded EXCEPT !.scripts[key] = NoScript])
                 ELSE Outcome(Ok(made.script.pk),
                              [loaded EXCEPT
                                  !.scripts[key] =
                                      [made.script EXCEPT
                                          !.attributes._global_script_settings = compare_hash,
                                          !.running = TRUE],
                                  !.next_pk = @ + 1])

\* for key in self.loaded_data: self._load_script(key), from the i-th key
\* on; the first key that raises ends the loop.
RECURSIVE LoadEach(_, _, _)
LoadEach(loaded_data, i, s) ==
    IF i > Len(loaded_data) THEN Outcome(Ok(0), s)
    ELSE LET one == _load_script(loaded_data, loaded_data[i].key, s) IN
         IF ~one.ok THEN one ELSE LoadEach(loaded_data, i + 1, one.s)

\* GlobalScriptContainer.start
start(loaded_data, s) ==
    LoadEach(loaded_data, 1, [s EXCEPT !.typeclass_storage = load_data(loaded_data, @)])

\* GlobalScriptContainer._get_scripts(key): the pk of the global script of
\* that key, 0 for None; _get_scripts(None): the pks of all global scripts.
_get_scripts(key, s) == s.scripts[key].pk
AllScripts(s) == {s.scripts[key].pk : key \in DOMAIN s.scripts} \ {0}

\* GlobalScriptContainer.get(key, default); x or default is default when x
\* is None.
get(loaded_data, key, default, s) ==
    LET res == _get_scripts(key, s) IN
    IF res = 0 THEN
        IF InLoadedData(loaded_data, key) THEN
            LET loaded == _load_script(loaded_data, key, s) IN
            IF loaded.ok /\ loaded.val = 0 THEN Outcome(Ok(default), loaded.s) ELSE loaded
        ELSE Outcome(Ok(default), s)
    ELSE Outcome(Ok(res), s)

\* GlobalScriptContainer.all
all(loaded_data, s) ==
    LET each == LoadEach(loaded_data, 1,
                         [s EXCEPT !.typeclass_storage = load_data(loaded_data, NoStorage)])
    IN  IF ~each.ok THEN each ELSE Outcome(Ok(AllScripts(each.s)), each.s)

(***************************************************************************)
(* logger.py: log files.  A file is the sequence of its lines, a line is   *)
(* [id, from, size]: size bytes, the newline included, that are the text   *)
(* of the line written as id from its byte from on (from = 0: the whole    *)
(* line).  What readlines() returns has the same form; an item with        *)
(* from > 0 is the rest of a line whose beginning was not read.            *)
(***************************************************************************)
_LOG_FILE_HANDLE_RESET == 500
buffer_size == 4098

RECURSIVE FileSize(_)
FileSize(file) == IF file = <<>> THEN 0 ELSE Head(file).size + FileSize(Tail(file))

\* filehandle.readlines() with the file position at byte pos: the rest of
\* the line pos stands in, and the lines after it.
readlines(file, pos) ==
    LET StartOf(i) == FileSize(SubSeq(file, 1, i - 1))
        rest == {i \in 1..Len(file) : StartOf(i) + file[i].size > pos}
        first == Len(file) - Cardinality(rest) + 1
    IN  [j \in 1..Cardinality(rest) |->
            LET i == first + j - 1 IN
            IF StartOf(i) >= pos THEN file[i]
            ELSE [file[i] EXCEPT !.from = @ + (pos - StartOf(i)),
                                 !.size = @ - (pos - StartOf(i))]]

\* lines[start:stop] with start = -back and stop = -offset, or None when
\* offset is 0
Slice(lines, back, offset) ==
    LET from == IF back = 0 THEN 0
                ELSE IF back > Len(lines) THEN 0 ELSE Len(lines) - back
        upto == IF offset = 0 THEN Len(lines)
                ELSE IF offset > Len(lines) THEN 0 ELSE Len(lines) - offset
    IN  SubSeq(lines, from + 1, upto)

\* The while loop of seek_file, block_count = -blocks: seek blocks *
\* buffer_size back from the end and read the lines from there, until
\* there are enough; when the file is too small for the seek (IOError),
\* read it all.
RECURSIVE SeekBack(_, _, _, _)
SeekBack(file, wanted, lines_found, blocks) ==
    IF Len(lines_found) >= wanted THEN lines_found
    ELSE IF blocks * buffer_size > FileSize(file) THEN readlines(file, 0)
    ELSE SeekBack(file, wanted,
                  readlines(file, FileSize(file) - blocks * buffer_size), blocks + 1)

\* seek_file(filehandle, offset, nlines, None)
seek_file(file, offset, nlines) ==
    Slice(SeekBack(file, offset + nlines, <<>>, 1), nlines + offset, offset)

\* The cache of log file handles: _LOG_FILE_HANDLES (0 where the name is
\* not in the dict, else the handle, numbered in the order of opening) and
\* _LOG_FILE_HANDLE_COUNTS (-1 where the name is not in the dict); with
\* them the handles that were closed and the number of handles opened.
NoHandles(names) ==
    [handles |-> [f \in names |-> 0], counts |-> [f \in names |-> -1],
     closed |-> {}, opened |-> 0]

\* The cache with the handle of filename opened and handed out count times.
Cached(cache, filename, count) ==
    [cache EXCEPT !.handles[filename] = cache.opened + 1, !.counts[filename] = count,
                  !.opened = @ + 1]

\* _open_log_file if it handed out the cached handle whatever its counter.
_open_log_file_without_reset(filename, ioerror, cache) ==
    IF cache.handles[filename] # 0
    THEN [filehandle |-> cache.handles[filename],
          cache |-> [cache EXCEPT !.counts[filename] = @ + 1]]
    ELSE IF ioerror THEN [filehandle |-> 0, cache |-> cache]
    ELSE [filehandle |-> cache.opened + 1, cache |-> Cached(cache, filename, 0)]

\* _open_log_file(filename): a cached handle is counted and returned; once
\* its counter exceeds _LOG_FILE_HANDLE_RESET it is closed and deleted
\* from the cache.  A name without a cached handle is opened, and the new
\* handle cached with counter 0; when the opening raises IOError, None
\* (0) is returned and nothing is cached.
_open_log_file(filename, ioerror, cache) ==
    LET counted == IF cache.handles[filename] # 0
                   THEN [cache EXCEPT !.counts[filename] = @ + 1]
                   ELSE cache
    IN  IF cache.handles[filename] # 0 /\ counted.counts[filename] <= _LOG_FILE_HANDLE_RESET
        THEN [filehandle |-> cache.handles[filename], cache |-> counted]
        ELSE LET dropped ==
                     IF cache.handles[filename] # 0
                     THEN [counted EXCEPT !.closed = @ \cup {cache.handles[filename]},
                                          !.handles[filename] = 0]
                     ELSE counted
             IN  IF ioerror THEN [filehandle |-> 0, cache |-> dropped]
                 ELSE [filehandle |-> dropped.opened + 1,
                       cache |-> Cached(dropped, filename, 0)]

\* the name of the log file that is rotated and read
ChannelLog == "channel.log"

\* tail_log_file(filename, offset, nlines) without a callback, on
\* log = [exists, file, rotated, handle]: the file of that name, the file
\* it was moved to by the last rotation, and the cache of handles.
\* It gives the lines, and the file is there afterwards.
tail_log_file(log, offset, nlines) ==
    [lines |-> seek_file(log.file, offset, nlines),
     log |-> [log EXCEPT !.handle = _open_log_file(ChannelLog, FALSE, @).cache,
                       !.exists = TRUE]]

\* EvenniaLogFile.rotate(num_lines_to_append), -1 for None; LogFile.rotate
\* moves the file to <path>.1 and opens an empty one, write appends.
rotate(log, num_lines_to_append, class_num_lines) ==
    LET append_tail == IF num_lines_to_append # -1 THEN num_lines_to_append
                       ELSE class_num_lines
    IN  IF append_tail = 0 THEN [log EXCEPT !.rotated = log.file, !.file = <<>>]
        ELSE LET tail == tail_log_file(log, 0, class_num_lines) IN
             [tail.log EXCEPT !.rotated = log.file, !.file = tail.lines]

\* rotate_log_file(filename, num_lines_to_append)
rotate_log_file(log, num_lines_to_append, class_num_lines) ==
    IF log.exists
    THEN rotate([log EXCEPT !.handle = _open_log_file(ChannelLog, FALSE, @).cache],
                num_lines_to_append, class_num_lines)
    ELSE log

(***************************************************************************)
(* The codec called from several threads.  A call is a frame: the          *)
(* function, the statement to run next, and the locals (value while it is  *)
(* an object, data once it is bytes).  The module's globals are the        *)
(* names picklefield.py binds at import time.                              *)
(***************************************************************************)
ModuleGlobals == [DEFAULT_PROTOCOL |-> DEFAULT_PROTOCOL]

NoFrame ==
    [op |-> "none", pc |-> "idle", arg |-> Unset, compress_object |-> FALSE,
     value |-> Unset, data |-> <<>>, result |-> NoResult, interleaved |-> FALSE]

\* The frame of a call that is about to run its first statement.
Entered(op, arg, compress_object) ==
    [NoFrame EXCEPT !.op = op, !.arg = arg, !.value = arg,
                    !.compress_object = compress_object,
                    !.data = IF op = "dbsafe_decode" /\ arg.k = "str" THEN arg.s ELSE <<>>,
                    !.pc = CASE op = "dbsafe_encode" -> "deepcopy"
                             [] op = "dbsafe_decode" -> "b64decode"
                             [] OTHER -> "wrap"]

\* return and raise
Returned(frame, r) == [frame EXCEPT !.pc = "done", !.result = r]

\* The statements if dbsafe_encode kept the pickle in a global _buffer of
\* the module between dumps and the statements after it.
Statement_shared_buffer(frame, module) ==
    CASE frame.pc = "deepcopy" ->
            LET copied == deepcopy(frame.value) IN
            [frame |-> IF copied.ok THEN [frame EXCEPT !.value = copied.val, !.pc = "dumps"]
                       ELSE IF copied.err = "copy.Error"
                       THEN [frame EXCEPT !.value = pack_dbobj(frame.value), !.pc = "dumps"]
                       ELSE Returned(frame, copied),
             module |-> module]
      [] frame.pc = "dumps" ->
            LET dumped == dumps(frame.value) IN
            IF dumped.ok
            THEN [frame |-> [frame EXCEPT !.pc = "compress"],
                  module |-> ("_buffer" :> dumped.val) @@ module]
            ELSE [frame |-> Returned(frame, dumped), module |-> module]
      [] frame.pc = "compress" ->
            [frame |-> [frame EXCEPT !.pc = "b64encode"],
             module |-> IF frame.compress_object
                        THEN [module EXCEPT !["_buffer"] = compress(@)]
                        ELSE module]
      [] frame.pc = "b64encode" ->
            [frame |-> Returned(frame, Ok(PickledObject(b64encode(module["_buffer"])))),
             module |-> module]
      [] frame.pc = "b64decode" ->
            LET raw == IF frame.arg.k # "str" THEN Raise("AttributeError")
                       ELSE b64decode(frame.data) IN
            [frame |-> IF raw.ok THEN [frame EXCEPT !.data = raw.val, !.pc = "decompress"]
                       ELSE Returned(frame, raw),
             module |-> module]
      [] frame.pc = "decompress" ->
            LET raw == IF frame.compress_object THEN decompress(frame.data)
                       ELSE Ok(frame.data) IN
            [frame |-> IF raw.ok THEN [frame EXCEPT !.data = raw.val, !.pc = "loads"]
                       ELSE Returned(frame, raw),
             module |-> module]
      [] frame.pc = "loads" ->
            [frame |-> Returned(frame, loads(frame.data)), module |-> module]
      [] frame.pc = "wrap" ->
            [frame |-> Returned(frame, Ok(wrap_conflictual_object(frame.value))),
             module |-> module]

\* The statement a frame runs next, in dbsafe_encode (deepcopy or
\* pack_dbobj, dumps, compress, b64encode), dbsafe_decode (b64decode,
\* decompress, loads) and wrap_conflictual_object: the frame and the
\* module's globals after it.
Statement(frame, module) ==
    CASE frame.pc = "deepcopy" ->
            LET copied == deepcopy(frame.value) IN
            [frame |-> IF copied.ok THEN [frame EXCEPT !.value = copied.val, !.pc = "dumps"]
                       ELSE IF copied.err = "copy.Error"
                       THEN [frame EXCEPT !.value = pack_dbobj(frame.value), !.pc = "dumps"]
                       ELSE Returned(frame, copied),
             module |-> module]
      [] frame.pc = "dumps" ->
            LET dumped == dumps(frame.value) IN
            [frame |-> IF dumped.ok THEN [frame EXCEPT !.data = dumped.val, !.pc = "compress"]
                       ELSE Returned(frame, dumped),
             module |-> module]
      [] frame.pc = "compress" ->
            [frame |-> [frame EXCEPT !.pc = "b64encode",
                                     !.data = IF frame.compress_object THEN compress(@) ELSE @],
             module |-> module]
      [] frame.pc = "b64encode" ->
            [frame |-> Returned(frame, Ok(PickledObject(b64encode(frame.data)))),
             module |-> module]
      [] frame.pc = "b64decode" ->
            LET raw == IF frame.arg.k # "str" THEN Raise("AttributeError")
                       ELSE b64decode(frame.data) IN
            [frame |-> IF raw.ok THEN [frame EXCEPT !.data = raw.val, !.pc = "decompress"]
                       ELSE Returned(frame, raw),
             module |-> module]
      [] frame.pc = "decompress" ->
            LET raw == IF frame.compress_object THEN decompress(frame.data)
                       ELSE Ok(frame.data) IN
            [frame |-> IF raw.ok THEN [frame EXCEPT !.data = raw.val, !.pc = "loads"]
                       ELSE Returned(frame, raw),
             module |-> module]
      [] frame.pc = "loads" ->
            [frame |-> Returned(frame, loads(frame.data)), module |-> module]
      [] frame.pc = "wrap" ->
            [frame |-> Returned(frame, Ok(wrap_conflictual_object(frame.value))),
             module |-> module]

(***************************************************************************)
(* create.py: the creation functions and the post-create signals.  The     *)
(* database is the rows saved so far and the events are what the calls did *)
(* in order: a save, a delete, a signal sent, a line logged.  The models   *)
(* and typeclasses are not in this module: their save() either inserts the *)
(* row or raises the fault the call is given.                              *)
(***************************************************************************)
NoDatabase == [rows |-> <<>>, events |-> <<>>]

\* None, returned in place of the new entity
NoRow == [table |-> "", key |-> "", id |-> 0]

Event(event, name, sender) == [event |-> event, name |-> name, sender |-> sender]

\* new_x.save() of a new instance: the row gets the next id, or the
\* database raises
model_save(table, key, fault, s) ==
    IF fault # "" THEN [res |-> Raise(fault), s |-> s]
    ELSE LET row == [table |-> table, key |-> key, id |-> Len(s.rows) + 1] IN
         [res |-> Ok(row),
          s |-> [rows |-> Append(s.rows, row),
                 events |-> Append(s.events, Event("save", table, row.id))]]

\* signals.SIGNAL_X_POST_CREATE.send(sender=new_x)
send(signal, sender, s) ==
    [s EXCEPT !.events = Append(@, Event("send", signal, sender.id))]

\* logger.log_err and logger.log_trace
log_line(level, s) == [s EXCEPT !.events = Append(@, Event(level, "", 0))]

\* create_object: the typeclass is loaded (a path that cannot be imported
\* raises), the instance is saved, the signal is sent, the object returned.
create_object(key, fault, s) ==
    IF fault = "ImportError" THEN [res |-> Raise(fault), s |-> s]
    ELSE LET saved == model_save("ObjectDB", key, fault, s) IN
         IF ~saved.res.ok THEN saved
         ELSE [res |-> saved.res,
               s |-> send("SIGNAL_OBJECT_POST_CREATE", saved.res.val, saved.s)]

\* create_script: as create_object, but a script that ran once and stopped
\* inside save() has no id any more: None is returned and no signal sent.
create_script(key, fault, stopped, s) ==
    IF fault = "ImportError" THEN [res |-> Raise(fault), s |-> s]
    ELSE LET saved == model_save("ScriptDB", key, fault, s) IN
         IF ~saved.res.ok THEN saved
         ELSE IF stopped
         THEN [res |-> Ok(NoRow),
               s |-> [rows |-> s.rows,
                      events |-> Append(saved.s.events,
                                        Event("delete", "ScriptDB", saved.res.val.id))]]
         ELSE [res |-> saved.res,
               s |-> send("SIGNAL_SCRIPT_POST_CREATE", saved.res.val, saved.s)]

\* create_help_entry: everything up to save() is inside the try, and the
\* try returns the new entry; an IntegrityError is logged with log_err, any
\* other exception with log_trace, and None is returned.  The statement
\* that sends SIGNAL_HELPENTRY_POST_CREATE follows the try statement, every
\* branch of which returns.
create_help_entry(key, fault, s) ==
    LET saved == model_save("HelpEntry", key, fault, s) IN
    IF saved.res.ok THEN saved
    ELSE IF saved.res.err = "IntegrityError"
    THEN [res |-> Ok(NoRow), s |-> log_line("log_err", s)]
    ELSE [res |-> Ok(NoRow), s |-> log_line("log_trace", s)]

\* create_channel
create_channel(key, fault, s) ==
    IF fault = "ImportError" THEN [res |-> Raise(fault), s |-> s]
    ELSE LET saved == model_save("ChannelDB", key, fault, s) IN
         IF ~saved.res.ok THEN saved
         ELSE [res |-> saved.res,
               s |-> send("SIGNAL_CHANNEL_POST_CREATE", saved.res.val, saved.s)]

(***************************************************************************)
(* create.py: create_account.  Account names are texts of character codes; *)
(* username__iexact compares them with the case of the letters folded.     *)
(***************************************************************************)
\* the case folding of the iexact lookup, on ASCII letters
lower(text) == [i \in 1..Len(text) |-> IF text[i] \in 65..90 THEN text[i] + 32 ELSE text[i]]

\* _AccountDB.objects.filter(username__iexact=key)
iexact(s, key) ==
    {i \in 1..Len(s.rows) : s.rows[i].table = "AccountDB" /\ lower(s.rows[i].key) = lower(key)}

\* The same lookup if it compared the names as they are written.
exact(s, key) ==
    {i \in 1..Len(s.rows) : s.rows[i].table = "AccountDB" /\ s.rows[i].key = key}

\* create_account if the existing name were looked up with its case.
create_account_case_sensitive(key, password, valid, fault, s) ==
    IF exact(s, key) # {} THEN [res |-> Raise("ValueError"), s |-> s]
    ELSE IF password # "None" /\ ~valid THEN [res |-> Raise("ValidationError"), s |-> s]
    ELSE model_save("AccountDB", key, fault, s)

\* create_account: an account of that name (whatever the case) raises
\* ValueError; a password that is given and that validate_password rejects
\* raises the validator's error; otherwise the account is saved.  No signal
\* is sent here.
create_account(key, password, valid, fault, s) ==
    IF iexact(s, key) # {} THEN [res |-> Raise("ValueError"), s |-> s]
    ELSE IF password # "None" /\ ~valid THEN [res |-> Raise("ValidationError"), s |-> s]
    ELSE model_save("AccountDB", key, fault, s)

(***************************************************************************)
(* logger.py: WeeklyLogFile.  The clock counts days from the first of      *)
(* January of FirstYear; toDate makes the tuple (year, month, day) of it.  *)
(* twisted's DailyLogFile and BaseLogFile are not in this module: write    *)
(* asks shouldRotate and rotates before it writes, and a rotation opens a  *)
(* new file, whose date is today's and whose size is 0.                    *)
(***************************************************************************)
day_rotation == 7
max_size == 1000000

FirstYear == 2020
Years == {FirstYear, FirstYear + 1}

IsLeap(y) == (y % 4 = 0 /\ y % 100 # 0) \/ y % 400 = 0

DaysInMonth(y, m) ==
    IF m = 2 THEN (IF IsLeap(y) THEN 29 ELSE 28)
    ELSE IF m \in {4, 6, 9, 11} THEN 30 ELSE 31

\* the day of the clock that a date is
toordinal(date) ==
    LET before == <<0, 31, 59, 90, 120, 151, 181, 212, 243, 273, 304, 334>> IN
    (date[1] - FirstYear) * 365 + Cardinality({z \in FirstYear..(date[1] - 1) : IsLeap(z)})
        + before[date[2]] + (IF IsLeap(date[1]) /\ date[2] > 2 THEN 1 ELSE 0)
        + date[3] - 1

\* DailyLogFile.toDate(): time.localtime()[:3], the year, the month and the
\* day of the month the day of the clock falls in
toDate(day) ==
    LET y == CHOOSE z \in Years :
                 toordinal(<<z, 1, 1>>) <= day /\ day <= toordinal(<<z, 12, 31>>)
        m == CHOOSE n \in 1..12 :
                 /\ toordinal(<<y, n, 1>>) <= day
                 /\ day <= toordinal(<<y, n, DaysInMonth(y, n)>>)
    IN  <<y, m, day - toordinal(<<y, m, 1>>) + 1>>

\* WeeklyLogFile.shouldRotate, with now = self.toDate()
shouldRotate(now, file) ==
    LET then == file.lastDate IN
    \/ now[1] > then[1]
    \/ now[2] > then[2]
    \/ now[3] > (then[3] + day_rotation)
    \/ file.size >= max_size

\* WeeklyLogFile._openFile after a rotation: a new, empty file
WeeklyLogFile_openFile(now) == [lastDate |-> now, size |-> 0]

\* the larger of two date tuples, as max() orders tuples
MaxDate(a, b) ==
    IF \/ a[1] > b[1]
       \/ a[1] = b[1] /\ a[2] > b[2]
       \/ a[1] = b[1] /\ a[2] = b[2] /\ a[3] >= b[3]
    THEN a ELSE b

\* WeeklyLogFile.write: BaseLogFile.write (rotate if shouldRotate, then
\* write), then lastDate and size are brought up to date.
WeeklyLogFile_write(now, file, length) ==
    LET opened == IF shouldRotate(now, file) THEN WeeklyLogFile_openFile(now) ELSE file IN
    [lastDate |-> MaxDate(opened.lastDate, now), size |-> opened.size + length]

(***************************************************************************)
(* help/migrations/0005_auto_20210530_1818.py: update_help_entries.  A     *)
(* db_lock_storage is a text of character codes, the lock strings          *)
(* "type:definition" in it separated by ";".                               *)
(***************************************************************************)
\* "view" and "read"
ViewType == <<118, 105, 101, 119>>
ReadType == <<114, 101, 97, 100>>

\* str.split(sep)
split(text, sep) ==
    LET Cut(st, i) ==
            IF text[i] = sep THEN [done |-> Append(st.done, st.cur), cur |-> <<>>]
            ELSE [st EXCEPT !.cur = Append(@, text[i])]
        cut == FoldRange(Cut, [done |-> <<>>, cur |-> <<>>], 1, Len(text))
    IN  Append(cut.done, cut.cur)

\* lstring.split(":", 1) if ":" in lstring else (lstring, "")
TypeAndLock(lstring) ==
    LET colons == {i \in 1..Len(lstring) : lstring[i] = 58} IN
    IF colons = {} THEN <<lstring, <<>>>>
    ELSE LET at == CHOOSE i \in colons : \A j \in colons : i <= j IN
         <<SubSeq(lstring, 1, at - 1), SubSeq(lstring, at + 1, Len(lstring))>>

\* d[typ] = lock on a dict kept as the pairs in the order of insertion: a
\* type that is there keeps its place
LockSet(pairs, typ, lock) ==
    LET hit == {i \in 1..Len(pairs) : pairs[i][1] = typ} IN
    IF hit = {} THEN Append(pairs, <<typ, lock>>)
    ELSE [pairs EXCEPT ![CHOOSE i \in hit : TRUE] = <<typ, lock>>]

\* typ in d, d[typ], and d without typ
LockIn(pairs, typ) == \E i \in 1..Len(pairs) : pairs[i][1] = typ
LockOf(pairs, typ) == pairs[CHOOSE i \in 1..Len(pairs) : pairs[i][1] = typ][2]
LockPopped(pairs, typ) ==
    LET at == CHOOSE i \in 1..Len(pairs) : pairs[i][1] = typ IN
    SubSeq(pairs, 1, at - 1) \o SubSeq(pairs, at + 1, Len(pairs))

\* dict(... for lstring in str(lock_storage).split(";"))
LockDict(lock_storage) ==
    LET lstrings == split(lock_storage, 59)
        Add(pairs, i) == LockSet(pairs, TypeAndLock(lstrings[i])[1], TypeAndLock(lstrings[i])[2])
    IN  FoldRange(Add, <<>>, 1, Len(lstrings))

\* ";".join(f"{typ}:{lock}" for typ, lock in lock_storage.items())
LockText(pairs) ==
    Join([i \in 1..Len(pairs) |-> pairs[i][1] \o <<58>> \o pairs[i][2]], <<59>>)

\* The body of the loop if it stored the view lock under read and left the
\* view lock in place.
update_help_entry_keeps_view(lock_storage) ==
    LET pairs == LockDict(lock_storage) IN
    IF LockIn(pairs, ReadType) THEN lock_storage
    ELSE IF LockIn(pairs, ViewType)
    THEN LockText(LockSet(pairs, ReadType, LockOf(pairs, ViewType)))
    ELSE LockText(pairs)

\* The body of the loop: the db_lock_storage of the entry after it.  An
\* entry with a read lock is skipped; the view lock of another is popped
\* and set as the read lock; the text is joined anew and saved.
update_help_entry(lock_storage) ==
    LET pairs == LockDict(lock_storage) IN
    IF LockIn(pairs, ReadType) THEN lock_storage
    ELSE IF LockIn(pairs, ViewType)
    THEN LockText(LockSet(LockPopped(pairs, ViewType), ReadType, LockOf(pairs, ViewType)))
    ELSE LockText(pairs)

\* update_help_entries: for help_entry in HelpEntry.objects.all()
update_help_entries(entries) ==
    [pk \in DOMAIN entries |-> update_help_entry(entries[pk])]

(***************************************************************************)
(* The values the callers hand in.                                         *)
(***************************************************************************)
\* The longest list and the most pairs of a dict handed to the codec.
MaxLen == 2
\* The longest text found in a column that this field never wrote.
MaxStored == 3
\* The most characters lost from a stored text.
MaxCut == 2
\* The longest text typed into the admin form.
MaxTyped == 3
\* The most calls of get_default followed.
MaxDefaults == 3
\* The most entries of settings.GLOBAL_SCRIPTS.
MaxSettings == 2
\* The most global scripts created in a run.
MaxScripts == 3
\* The most lines of a log file, and the most lines asked for.
MaxLines == 3
\* The most calls on a log file followed.
MaxLogCalls == 2
\* the events of the creation calls that are followed
MaxEvents == 4
\* the calls of _open_log_file that are followed
MaxAccesses == 4
\* the times the migration is run
MaxRuns == 2
\* the days the clock is followed from where it starts
MaxDays == 12


SeqsUpTo(S, n) == UNION {[1..k -> S] : k \in 0..n}

AB == <<97, 98>>
CD == <<99, 100>>

\* Two str objects of the same text, two list objects of the same items.
Elements ==
    { NoneV, IntV(1), StrV(1, AB), StrV(2, AB),
      ListV(4, <<IntV(1)>>), ListV(5, <<IntV(1)>>) }

Lists == {ListV(10, items) : items \in SeqsUpTo(Elements, MaxLen)}

DictKeys == {IntV(1), StrV(1, AB), StrV(6, CD)}
DictValues == {IntV(7), StrV(1, AB)}
Dicts ==
    UNION { { DictV(11, [i \in 1..(2 * k) |->
                            IF i % 2 = 1 THEN keys[(i + 1) \div 2]
                            ELSE vals[i \div 2]]) :
              keys \in {f \in [1..k -> DictKeys] :
                           \A i, j \in 1..k : f[i] = f[j] => i = j},
              vals \in [1..k -> DictValues] } : k \in 0..MaxLen }

Scalars ==
    { NoneV, IntV(0), IntV(1), IntV(300), StrV(1, AB), StrV(3, <<>>) }

Objects ==
    { HookFn, RoomClass, PlainClass, ObjV(7, RoomClass), ObjV(8, PlainClass),
      ListV(10, <<HookFn, HookFn>>),
      ListV(10, <<DictV(11, <<StrV(1, AB), ListV(4, <<IntV(1)>>)>>), ListV(4, <<IntV(1)>>)>>),
      ObjectWrapper(9, IntV(1)) }

\* What cannot be written as it is: a local function, a database object,
\* alone and in a list, and objects that refuse to be copied.
Unserializable ==
    { LocalFn, DbObjV(12, 3), ListV(10, <<IntV(1), DbObjV(12, 3)>>),
      ObjV(14, SealedClass), ListV(10, <<ObjV(14, SealedClass)>>) }

Values == Scalars \cup Lists \cup Dicts \cup Objects \cup Unserializable

Serializable(v) == Copyable(v) /\ Picklable(v)

\* What a model instance holds in the field when it is saved.
FieldValues ==
    { NoneV, IntV(1), StrV(1, AB),
      ListV(10, <<IntV(1), StrV(1, AB)>>),
      DictV(11, <<StrV(1, AB), ListV(4, <<IntV(1)>>)>>),
      HookFn, RoomClass, PlainClass, ObjV(7, RoomClass), ObjV(8, PlainClass),
      ListV(10, <<HookFn>>), LocalFn,
      StrV(3, <<>>), ListV(10, <<>>), DictV(11, <<>>), TupleV(13, <<>>) }

\* Texts that other code left in the column: the short ones over T, i, 4
\* and =, and Ti4=.  None is the encoder's: its texts start with gA
\* (PROTO 4) or eJ (zlib).
StoredChars == {84, 105, 52, 61}
StoredTexts == SeqsUpTo(StoredChars, MaxStored) \cup {<<84, 105, 52, 61>>}

LookupTypes ==
    {"exact", "in", "isnull", "iexact", "contains", "gt", "startswith", "range", "regex"}
LookupValues == {NoneV, IntV(1), StrV(1, AB), ListV(10, <<IntV(1), StrV(1, AB)>>)}

\* Texts handed to from_db_value as PickledObject: encodings, whole and
\* cut short, and a text that is no encoding.
TaggedTexts ==
    LET Whole == {dbsafe_encode(v, c).val.s :
                     v \in {IntV(1), StrV(1, AB), HookFn}, c \in BOOLEAN}
    IN  Whole \cup {Take(t, Len(t) - n) : t \in Whole, n \in 1..MaxCut}
              \cup {<<84, 105, 52, 61>>, <<>>}

\* Values handed to get_db_prep_value directly: encoded ones among them.
PreparedValues ==
    FieldValues \cup {dbsafe_encode(v, c).val : v \in {IntV(1), StrV(1, AB)}, c \in BOOLEAN}

\* What the admin form is opened on: None, numbers, strs (the empty one,
\* one with a blank in front, ones that read like a number or like None, one
\* with a quote in it) and lists.
FormStrings ==
    { <<>>, <<97>>, <<32, 97>>, <<49>>, <<49, 50, 51>>, NoneText, <<97, 39>>, <<97, 32, 98>> }
FormElements == {NoneV, IntV(1), StrV(0, <<97>>), StrV(0, <<49>>)}
FormValues ==
    {NoneV, IntV(0), IntV(1), IntV(123)}
        \cup {StrV(0, s) : s \in FormStrings}
        \cup {ListV(0, items) : items \in SeqsUpTo(FormElements, MaxLen)}
        \cup {ListV(0, <<ListV(0, <<IntV(1)>>), StrV(0, <<97>>)>>)}

\* What is typed: texts over 1 a ' [ ] , blank and {
TypedChars == {49, 97, 39, 91, 93, 44, 32, 123}
TypedTexts == SeqsUpTo(TypedChars, MaxTyped)

(***************************************************************************)
(* State.                                                                  *)
(***************************************************************************)
VARIABLES
    \* a call of dbsafe_encode (value, flag, result), a second call on an
    \* equal value, and the result of dbsafe_decode on the first result
    value, compress_object, encoded, other_value, other_encoded, decoded,
    \* a PickledObjectField of a model: the field's compress setting, the
    \* row's column (NULL or a text), where the column's content came from,
    \* what was saved last, and the last call of a method of the field
    self_compress, column, origin, saved, result,
    \* the admin form: what stands in the text area (and the value it was
    \* rendered from), and what clean made of the submitted text
    rendered, cleaned,
    \* the default the field was declared with, how often its producer has
    \* been called, and the get_default calls made so far
    default, produced, defaults,
    \* the global script container (loaded_data, typeclass_storage), the
    \* global scripts in the database, the pk the next script gets, and the
    \* last call of a method of the container
    loaded_data, typeclass_storage, scripts, next_pk, called,
    \* a log file of the log directory with the cache of log file handles,
    \* EvenniaLogFile.num_lines_to_append, and the last call made on the file
    log, num_lines_to_append, logged,
    \* the frames of the codec calls of the threads, and the globals of the
    \* module picklefield
    frames, module,
    \* the rows of the database, what the creation calls did in order, and
    \* the last creation call
    rows, events, created,
    \* the day it is, the WeeklyLogFile (lastDate, size), and the last
    \* shouldRotate() asked of it
    clock, weekly, asked,
    \* the db_lock_storage of the help entries by pk, and the runs of the
    \* migration (how many, the entries before the first and the last)
    help_entries, migrated

codecVars == <<value, compress_object, encoded, other_value, other_encoded, decoded>>
fieldVars == <<self_compress, column, origin, saved, result>>
formVars == <<rendered, cleaned>>
defaultVars == <<default, produced, defaults>>
scriptVars == <<loaded_data, typeclass_storage, scripts, next_pk, called>>
logVars == <<log, num_lines_to_append, logged>>
threadVars == <<frames, module>>
createVars == <<rows, events, created>>
weeklyVars == <<clock, weekly, asked>>
helpVars == <<help_entries, migrated>>
otherVars == <<defaultVars, scriptVars, logVars, threadVars, createVars, weeklyVars, helpVars>>
vars == <<codecVars, fieldVars, formVars, otherVars>>

Null == [null |-> TRUE, text |-> <<>>]
Text(s) == [null |-> FALSE, text |-> s]
NothingSaved == [value |-> Unset, compress |-> FALSE]
Call(op, kind, given, arg, res) ==
    [op |-> op, kind |-> kind, given |-> given, arg |-> arg, res |-> res]
NoCall == Call("none", "", Unset, Unset, Traced(NoResult, <<>>))
NoText == [by |-> "nobody", value |-> Unset, text |-> <<>>]

CodecIdle ==
    /\ value = Unset
    /\ compress_object = FALSE
    /\ encoded = NoResult
    /\ other_value = Unset
    /\ other_encoded = NoResult
    /\ decoded = NoResult

FieldIdle ==
    /\ self_compress = FALSE
    /\ column = Null
    /\ origin = "empty"
    /\ saved = NothingSaved
    /\ result = NoCall

FormIdle ==
    /\ rendered = NoText
    /\ cleaned = NoResult

DefaultIdle ==
    /\ default = NOT_PROVIDED
    /\ produced = 0
    /\ defaults = <<>>

NoScripts == [key \in {"ticker", "faulty", "ghost", "manual"} |-> NoScript]
NotCalled == [op |-> "none", key |-> "", fallback |-> 0, before |-> NoScripts, res |-> NoResult]

ScriptIdle ==
    /\ loaded_data = <<>>
    /\ typeclass_storage = NoStorage
    /\ scripts = NoScripts
    /\ next_pk = 1
    /\ called = NotCalled

NoLog == [exists |-> FALSE, file |-> <<>>, rotated |-> <<>>,
          handle |-> NoHandles({ChannelLog})]
NotLogged == [op |-> "none", n |-> 0, offset |-> 0, nlines |-> 0, before |-> <<>>, lines |-> <<>>]

LogIdle ==
    /\ log = NoLog
    /\ num_lines_to_append = 0
    /\ logged = NotLogged

Threads == {"main", "worker"}

ThreadIdle ==
    /\ frames = [t \in Threads |-> NoFrame]
    /\ module = ModuleGlobals

NotCreated == [op |-> "none", before |-> 0, res |-> NoResult]

CreateIdle ==
    /\ rows = <<>>
    /\ events = <<>>
    /\ created = NotCreated

NotAsked == [op |-> "none", now |-> <<>>, then |-> <<>>, size |-> 0, res |-> FALSE]

WeeklyIdle ==
    /\ clock = 0
    /\ weekly = WeeklyLogFile_openFile(toDate(0))
    /\ asked = NotAsked

NotMigrated == [n |-> 0, first |-> <<>>, before |-> <<>>]

HelpIdle ==
    /\ help_entries = <<>>
    /\ migrated = NotMigrated

OtherIdle == DefaultIdle /\ ScriptIdle /\ LogIdle /\ ThreadIdle /\ CreateIdle /\ WeeklyIdle /\ HelpIdle

(***************************************************************************)
(* The codec, called directly: dbsafe_encode on a value, once more on an   *)
(* equal value, dbsafe_decode on the text.                                 *)
(***************************************************************************)
CodecInit ==
    /\ value \in Values
    /\ compress_object \in BOOLEAN
    /\ encoded = NoResult
    /\ other_value = Unset
    /\ other_encoded = NoResult
    /\ decoded = NoResult

Encode ==
    /\ encoded = NoResult
    /\ encoded' = dbsafe_encode(value, compress_object)
    /\ UNCHANGED <<value, compress_object, other_value, other_encoded, decoded>>
    /\ UNCHANGED <<fieldVars, formVars, otherVars>>

\* The same logical value once more: another object that is == the first,
\* built on its own or sharing its parts differently.
EncodeAgain(v) ==
    /\ encoded # NoResult
    /\ other_value = Unset
    /\ ValEq(v, value)
    /\ other_value' = v
    /\ other_encoded' = dbsafe_encode(v, compress_object)
    /\ UNCHANGED <<value, compress_object, encoded, decoded>>
    /\ UNCHANGED <<fieldVars, formVars, otherVars>>

Decode ==
    /\ encoded.ok
    /\ decoded = NoResult
    /\ decoded' = dbsafe_decode(encoded.val, compress_object)
    /\ UNCHANGED <<value, compress_object, encoded, other_value, other_encoded>>
    /\ UNCHANGED <<fieldVars, formVars, otherVars>>

CodecNext ==
    \/ Encode
    \/ \E v \in Values : EncodeAgain(v)
    \/ Decode

CodecStart == CodecInit /\ FieldIdle /\ FormIdle /\ OtherIdle

CodecSpec == CodecStart /\ [][CodecNext]_vars

(***************************************************************************)
(* The field of a model with one row.  The column is NULL or holds a text  *)
(* that other code left there; the database hands a text back as a plain   *)
(* str.                                                                    *)
(***************************************************************************)
FieldInit ==
    /\ self_compress \in BOOLEAN
    /\ column \in {Null} \cup {Text(t) : t \in StoredTexts}
    /\ origin = IF column.null THEN "empty" ELSE "legacy"
    /\ saved = NothingSaved
    /\ result = NoCall

\* Model.save(): pre_save, get_db_prep_value, and the UPDATE of the column
\* unless the value could not be prepared.
Save(v) ==
    LET arg == pre_save(v)
        res == get_db_prep_value(arg, self_compress)
    IN  /\ result' = Call("save", "", v, arg, res)
        /\ IF res.ok
           THEN /\ column' = IF res.val.k = "none" THEN Null ELSE Text(res.val.s)
                /\ origin' = "field"
                /\ saved' = [value |-> v, compress |-> self_compress]
           ELSE UNCHANGED <<column, origin, saved>>
        /\ UNCHANGED <<self_compress, codecVars, formVars, otherVars>>

\* The row is fetched: from_db_value on what the database returns.
Load ==
    LET arg == IF column.null THEN NoneV ELSE PlainStr(column.text) IN
    /\ result' = Call("load", "", Unset, arg, from_db_value(arg, self_compress))
    /\ UNCHANGED <<self_compress, column, origin, saved, codecVars, formVars, otherVars>>

\* A text written by the field loses its last n characters.
Corrupt(n) ==
    /\ origin = "field"
    /\ ~column.null
    /\ n <= Len(column.text)
    /\ column' = Text(Take(column.text, Len(column.text) - n))
    /\ origin' = "corrupt"
    /\ result' = NoCall
    /\ UNCHANGED <<self_compress, saved, codecVars, formVars, otherVars>>

\* The field is declared anew with the other compress setting.
Reconfigure ==
    /\ self_compress' = ~self_compress
    /\ result' = NoCall
    /\ UNCHANGED <<column, origin, saved, codecVars, formVars, otherVars>>

FieldNext ==
    \/ \E v \in FieldValues : Save(v)
    \/ Load
    \/ \E n \in 1..MaxCut : Corrupt(n)
    \/ Reconfigure

FieldStart == CodecIdle /\ FieldInit /\ FormIdle /\ OtherIdle

FieldSpec == FieldStart /\ [][FieldNext]_vars

(***************************************************************************)
(* The field's methods, called one at a time.                              *)
(***************************************************************************)
CallInit ==
    /\ self_compress \in BOOLEAN
    /\ column = Null
    /\ origin = "empty"
    /\ saved = NothingSaved
    /\ result = NoCall

Lookup(lookup_type, v) ==
    /\ result' = Call("get_db_prep_lookup", lookup_type, v, v,
                      get_db_prep_lookup(lookup_type, v))
    /\ UNCHANGED <<self_compress, column, origin, saved, codecVars, formVars, otherVars>>

Prepare(v) ==
    /\ result' = Call("get_db_prep_value", "", v, v,
                      get_db_prep_value(v, self_compress))
    /\ UNCHANGED <<self_compress, column, origin, saved, codecVars, formVars, otherVars>>

\* get_db_prep_value called on what it returned for the value given first
PrepareAgain ==
    /\ result.op = "get_db_prep_value"
    /\ result.res.ok
    /\ result' = Call("get_db_prep_value", "again", result.given, result.res.val,
                      get_db_prep_value(result.res.val, self_compress))
    /\ UNCHANGED <<self_compress, column, origin, saved, codecVars, formVars, otherVars>>

Convert(text) ==
    /\ result' = Call("from_db_value", "", Unset, PickledObject(text),
                      from_db_value(PickledObject(text), self_compress))
    /\ UNCHANGED <<self_compress, column, origin, saved, codecVars, formVars, otherVars>>

CallNext ==
    \/ \E lookup_type \in LookupTypes, v \in LookupValues : Lookup(lookup_type, v)
    \/ \E v \in PreparedValues : Prepare(v)
    \/ PrepareAgain
    \/ \E text \in TaggedTexts : Convert(text)

CallStart == CodecIdle /\ CallInit /\ FormIdle /\ OtherIdle

CallSpec == CallStart /\ [][CallNext]_vars

(***************************************************************************)
(* The admin form: opened on a value, which the widget renders, or opened  *)
(* empty and typed into; then submitted.                                   *)
(***************************************************************************)
Render(v) ==
    /\ rendered = NoText
    /\ rendered' = [by |-> "widget", value |-> v, text |-> render(v)]
    /\ UNCHANGED <<cleaned, codecVars, fieldVars, otherVars>>

Type(text) ==
    /\ rendered = NoText
    /\ rendered' = [by |-> "user", value |-> Unset, text |-> text]
    /\ UNCHANGED <<cleaned, codecVars, fieldVars, otherVars>>

Submit ==
    /\ rendered # NoText
    /\ cleaned = NoResult
    /\ cleaned' = clean(rendered.text)
    /\ UNCHANGED <<rendered, codecVars, fieldVars, otherVars>>

FormNext ==
    \/ \E v \in FormValues : Render(v)
    \/ \E text \in TypedTexts : Type(text)
    \/ Submit

FormStart == CodecIdle /\ FieldIdle /\ FormIdle /\ OtherIdle

FormSpec == FormStart /\ [][FormNext]_vars

(***************************************************************************)
(* A field's default: the field is declared with a default or without,     *)
(* and get_default is called whenever an instance is made without a value. *)
(***************************************************************************)
\* The defaults a field is declared with: values, mutable ones among them,
\* and producers.
Defaults ==
    { NOT_PROVIDED, NoneV, IntV(1), StrV(1, AB), ListV(10, <<>>),
      DictV(11, <<StrV(1, AB), ListV(4, <<IntV(1)>>)>>), ObjV(7, RoomClass),
      HookFn, RoomClass, PlainClass, LocalFn }

DefaultInit ==
    /\ default \in Defaults
    /\ produced = 0
    /\ defaults = <<>>

GetDefault ==
    /\ Len(defaults) < MaxDefaults
    /\ LET r == get_default(default, produced) IN
        /\ defaults' = Append(defaults, [default |-> default, before |-> produced, res |-> r])
        /\ produced' = r.produced
    /\ UNCHANGED <<default, codecVars, fieldVars, formVars, scriptVars, logVars, threadVars, createVars, weeklyVars, helpVars>>

\* Another field, declared with another default.
Declare(d) ==
    /\ d # default
    /\ default' = d
    /\ UNCHANGED <<produced, defaults, codecVars, fieldVars, formVars, scriptVars, logVars, threadVars, createVars, weeklyVars, helpVars>>

DefaultNext ==
    \/ GetDefault
    \/ \E d \in Defaults : Declare(d)

DefaultStart == CodecIdle /\ FieldIdle /\ FormIdle /\ DefaultInit /\ ScriptIdle /\ LogIdle /\ ThreadIdle /\ CreateIdle /\ WeeklyIdle /\ HelpIdle
DefaultSpec == DefaultStart /\ [][DefaultNext]_vars

(***************************************************************************)
(* The global script container: the server is booted with the settings of  *)
(* the day (GLOBAL_SCRIPTS = GlobalScriptContainer()), start, get and all  *)
(* are called, and scripts are created and deleted by other code.  The     *)
(* typeclass named for a key is the same in all settings.                  *)
(***************************************************************************)
\* The entries of settings.GLOBAL_SCRIPTS: ticker without data and with an
\* interval, a script whose module is not there, one whose creation fails.
Entries ==
    { [key |-> "ticker", data |-> NoneV],
      [key |-> "ticker", data |-> DictV(221, <<IntervalName, IntV(10)>>)],
      [key |-> "ghost", data |-> DictV(222, <<TypeclassName, GhostPath>>)],
      [key |-> "faulty", data |-> DictV(223, <<TypeclassName, FaultyPath>>)] }
GlobalScripts ==
    {g \in SeqsUpTo(Entries, MaxSettings) :
        \A i, j \in 1..Len(g) : g[i].key = g[j].key => i = j}

\* The container and the database as the methods see them.
Container == [typeclass_storage |-> typeclass_storage, scripts |-> scripts,
              next_pk |-> next_pk]

\* What a method of the container did: the call is recorded with the
\* scripts that were there before it.
Called(op, key, fallback, r) ==
    /\ called' = [op |-> op, key |-> key, fallback |-> fallback, before |-> scripts,
                  res |-> [ok |-> r.ok, err |-> r.err, val |-> r.val]]
    /\ typeclass_storage' = r.s.typeclass_storage
    /\ scripts' = r.s.scripts
    /\ next_pk' = r.s.next_pk
    /\ UNCHANGED <<loaded_data, codecVars, fieldVars, formVars, defaultVars, logVars, threadVars, createVars, weeklyVars, helpVars>>

ContainerInit ==
    /\ loaded_data \in {container_init(g) : g \in GlobalScripts}
    /\ typeclass_storage = NoStorage
    /\ scripts = NoScripts
    /\ next_pk = 1
    /\ called = NotCalled

\* The server is started again with other settings: the module is
\* imported and the container made anew.
Boot(GLOBAL_SCRIPTS) ==
    /\ container_init(GLOBAL_SCRIPTS) # loaded_data
    /\ loaded_data' = container_init(GLOBAL_SCRIPTS)
    /\ typeclass_storage' = NoStorage
    /\ called' = NotCalled
    /\ UNCHANGED <<scripts, next_pk, codecVars, fieldVars, formVars, defaultVars, logVars, threadVars, createVars, weeklyVars, helpVars>>

Start ==
    /\ next_pk <= MaxScripts
    /\ Called("start", "", 0, start(loaded_data, Container))

Get(key, fallback) ==
    /\ next_pk <= MaxScripts
    /\ Called("get", key, fallback, get(loaded_data, key, fallback, Container))

All ==
    /\ next_pk <= MaxScripts
    /\ Called("all", "", 0, all(loaded_data, Container))

\* Other code deletes a global script.
DeleteScript(key) ==
    /\ scripts[key].pk # 0
    /\ scripts' = [scripts EXCEPT ![key] = NoScript]
    /\ called' = NotCalled
    /\ UNCHANGED <<loaded_data, typeclass_storage, next_pk, codecVars, fieldVars, formVars, defaultVars, logVars, threadVars, createVars, weeklyVars, helpVars>>

\* Other code creates a global script of its own and starts it.
CreateManual ==
    /\ next_pk <= MaxScripts
    /\ scripts["manual"].pk = 0
    /\ scripts' = [scripts EXCEPT !["manual"] =
                      [create(BASE_SCRIPT_TYPECLASS, NoneV, next_pk).script EXCEPT !.running = TRUE]]
    /\ next_pk' = next_pk + 1
    /\ called' = NotCalled
    /\ UNCHANGED <<loaded_data, typeclass_storage, codecVars, fieldVars, formVars, defaultVars, logVars, threadVars, createVars, weeklyVars, helpVars>>

ContainerNext ==
    \/ \E g \in GlobalScripts : Boot(g)
    \/ Start
    \/ \E key \in DOMAIN scripts, fallback \in {0, -1} : Get(key, fallback)
    \/ All
    \/ \E key \in DOMAIN scripts : DeleteScript(key)
    \/ CreateManual

ContainerStart == CodecIdle /\ FieldIdle /\ FormIdle /\ DefaultIdle /\ ContainerInit /\ LogIdle /\ ThreadIdle /\ CreateIdle /\ WeeklyIdle /\ HelpIdle
ContainerSpec == ContainerStart /\ [][ContainerNext]_vars

(***************************************************************************)
(* A log file: it is rotated and its tail is read.  The lines are long,    *)
(* so that a few of them fill the block tail_log_file steps back by.       *)
(***************************************************************************)
\* The sizes of lines: an empty line, half a block, and 3000 bytes.
LineSizes == {1, buffer_size \div 2, 3000}
LogFiles ==
    {[i \in 1..Len(sizes) |-> [id |-> i, from |-> 0, size |-> sizes[i]]] :
        sizes \in SeqsUpTo(LineSizes, MaxLines)}

LogInit ==
    /\ \E file \in LogFiles, handle \in {NoHandles({ChannelLog})} \cup
                {Cached(NoHandles({ChannelLog}), ChannelLog, n) :
                    n \in {0, _LOG_FILE_HANDLE_RESET - 1, _LOG_FILE_HANDLE_RESET}} :
           log = [exists |-> TRUE, file |-> file, rotated |-> <<>>, handle |-> handle]
    /\ num_lines_to_append \in 0..(MaxLines - 1)
    /\ logged = NotLogged

Rotate(n) ==
    /\ logged.n < MaxLogCalls
    /\ log' = rotate_log_file(log, n, num_lines_to_append)
    /\ logged' = [op |-> "rotate", n |-> logged.n + 1, offset |-> 0, nlines |-> n,
                  before |-> log.file, lines |-> <<>>]
    /\ UNCHANGED <<num_lines_to_append, codecVars, fieldVars, formVars, defaultVars, scriptVars, threadVars, createVars, weeklyVars, helpVars>>

TailLog(offset, nlines) ==
    /\ logged.n < MaxLogCalls
    /\ LET tail == tail_log_file(log, offset, nlines) IN
        /\ log' = tail.log
        /\ logged' = [op |-> "tail", n |-> logged.n + 1, offset |-> offset, nlines |-> nlines,
                      before |-> log.file, lines |-> tail.lines]
    /\ UNCHANGED <<num_lines_to_append, codecVars, fieldVars, formVars, defaultVars, scriptVars, threadVars, createVars, weeklyVars, helpVars>>

LogNext ==
    \/ \E n \in -1..MaxLines : Rotate(n)
    \/ \E offset \in 0..(MaxLines - 1), nlines \in 0..MaxLines : TailLog(offset, nlines)

LogStart == CodecIdle /\ FieldIdle /\ FormIdle /\ DefaultIdle /\ ScriptIdle /\ LogInit /\ ThreadIdle /\ CreateIdle /\ WeeklyIdle /\ HelpIdle
LogSpec == LogStart /\ [][LogNext]_vars

(***************************************************************************)
(* The codec called by two threads at once: each thread enters a call,     *)
(* runs its statements one at a time, and returns; the statements of the   *)
(* two calls interleave in every order.                                    *)
(***************************************************************************)
\* The calls the threads make.
ThreadCalls ==
    LET Given == {IntV(1), ListV(10, <<IntV(1), StrV(1, AB)>>), HookFn, DbObjV(12, 3),
                  ObjV(14, SealedClass)}
        Texts == {dbsafe_encode(v, c).val :
                     v \in {IntV(1), ListV(10, <<IntV(1), StrV(1, AB)>>)}, c \in BOOLEAN}
                     \cup {PlainStr(<<84, 105, 52>>), IntV(1)}
    IN  {Entered("dbsafe_encode", v, c) : v \in Given, c \in BOOLEAN}
            \cup {Entered("dbsafe_decode", text, c) : text \in Texts, c \in BOOLEAN}
            \cup {Entered("wrap_conflictual_object", v, FALSE) :
                      v \in {IntV(1), HookFn, ObjV(7, RoomClass)}}

ThreadInit ==
    /\ frames = [t \in Threads |-> NoFrame]
    /\ module = ModuleGlobals

\* A thread calls one of the three functions.
Enter(t, frame) ==
    /\ frames[t].pc = "idle"
    /\ frames' = [frames EXCEPT ![t] = frame]
    /\ UNCHANGED <<module, codecVars, fieldVars, formVars, defaultVars, scriptVars, logVars, createVars, weeklyVars, helpVars>>

\* A thread runs the next statement of its call; the calls the other
\* threads are in the middle of have been interleaved with.
Run(t) ==
    /\ frames[t].pc \notin {"idle", "done"}
    /\ LET after == Statement(frames[t], module) IN
        /\ frames' = [u \in Threads |->
                         IF u = t THEN after.frame
                         ELSE IF frames[u].pc \in {"idle", "done"} THEN frames[u]
                         ELSE [frames[u] EXCEPT !.interleaved = TRUE]]
        /\ module' = after.module
    /\ UNCHANGED <<codecVars, fieldVars, formVars, defaultVars, scriptVars, logVars, createVars, weeklyVars, helpVars>>

\* The caller has taken the result.
Leave(t) ==
    /\ frames[t].pc = "done"
    /\ frames' = [frames EXCEPT ![t] = NoFrame]
    /\ UNCHANGED <<module, codecVars, fieldVars, formVars, defaultVars, scriptVars, logVars, createVars, weeklyVars, helpVars>>

ThreadNext ==
    \/ \E t \in Threads, frame \in ThreadCalls : Enter(t, frame)
    \/ \E t \in Threads : Run(t)
    \/ \E t \in Threads : Leave(t)

ThreadStart == CodecIdle /\ FieldIdle /\ FormIdle /\ DefaultIdle /\ ScriptIdle /\ LogIdle /\ ThreadInit /\ CreateIdle /\ WeeklyIdle /\ HelpIdle
ThreadSpec == ThreadStart /\ [][ThreadNext]_vars

(***************************************************************************)
(* Entities created one after the other with the functions of create.py.   *)
(***************************************************************************)
Keys == {"about", "rules"}
Faults == {"", "ImportError", "IntegrityError", "OperationalError"}

CreateInit ==
    /\ rows = <<>>
    /\ events = <<>>
    /\ created = NotCreated

\* The call has run: the database, the events and the outcome after it.
Create(op, r) ==
    /\ rows' = r.s.rows
    /\ events' = r.s.events
    /\ created' = [op |-> op, before |-> Len(events), res |-> r.res]
    /\ UNCHANGED <<codecVars, fieldVars, formVars, defaultVars, scriptVars, logVars, threadVars, weeklyVars, helpVars>>

Database == [rows |-> rows, events |-> events]

CreateObject(key, fault) ==
    /\ Len(events) < MaxEvents
    /\ Create("create_object", create_object(key, fault, Database))

CreateScript(key, fault, stopped) ==
    /\ Len(events) < MaxEvents
    /\ Create("create_script", create_script(key, fault, stopped, Database))

CreateHelpEntry(key, fault) ==
    /\ Len(events) < MaxEvents
    /\ fault # "ImportError"
    /\ Create("create_help_entry", create_help_entry(key, fault, Database))

CreateChannel(key, fault) ==
    /\ Len(events) < MaxEvents
    /\ Create("create_channel", create_channel(key, fault, Database))

CreateNext ==
    \/ \E key \in Keys, fault \in Faults : CreateObject(key, fault)
    \/ \E key \in Keys, fault \in Faults, stopped \in BOOLEAN : CreateScript(key, fault, stopped)
    \/ \E key \in Keys, fault \in Faults : CreateHelpEntry(key, fault)
    \/ \E key \in Keys, fault \in Faults : CreateChannel(key, fault)

CreateStart == CodecIdle /\ FieldIdle /\ FormIdle /\ DefaultIdle /\ ScriptIdle /\ LogIdle /\ ThreadIdle /\ CreateInit /\ WeeklyIdle /\ HelpIdle
CreateSpec == CreateStart /\ [][CreateNext]_vars

(***************************************************************************)
(* Accounts created one after the other with create_account.               *)
(***************************************************************************)
\* Ann, ann, ANN, Bob, bob, Al
Names ==
    {<<65, 110, 110>>, <<97, 110, 110>>, <<65, 78, 78>>, <<66, 111, 98>>, <<98, 111, 98>>,
     <<65, 108>>}

\* None (a bot's account has no password) or a clear text
Passwords == {"None", "secret"}

\* The call with what it was given.
AccountCreated(key, password, valid, r) ==
    [op |-> "create_account", before |-> Len(events), res |-> r.res,
     key |-> key, password |-> password, valid |-> valid]

CreateAccount(key, password, valid, fault) ==
    /\ Len(events) < MaxEvents
    /\ LET r == create_account(key, password, valid, fault, Database) IN
        /\ rows' = r.s.rows
        /\ events' = r.s.events
        /\ created' = AccountCreated(key, password, valid, r)
    /\ UNCHANGED <<codecVars, fieldVars, formVars, defaultVars, scriptVars, logVars, threadVars, weeklyVars, helpVars>>

AccountNext ==
    \E key \in Names, password \in Passwords, valid \in BOOLEAN, fault \in {"", "OperationalError"} :
        CreateAccount(key, password, valid, fault)

AccountStart == CodecIdle /\ FieldIdle /\ FormIdle /\ DefaultIdle /\ ScriptIdle /\ LogIdle /\ ThreadIdle /\ CreateInit /\ WeeklyIdle /\ HelpIdle
AccountSpec == AccountStart /\ [][AccountNext]_vars

(***************************************************************************)
(* A WeeklyLogFile that is written to, and asked whether it should rotate, *)
(* as the days pass.                                                       *)
(***************************************************************************)
\* The days the clock starts at: before the end of a month, of February in
\* a leap year, and of a year.
StartDays == {toordinal(<<FirstYear, 1, 20>>), toordinal(<<FirstYear, 2, 20>>),
              toordinal(<<FirstYear, 12, 20>>)}

WeeklyInit ==
    /\ clock \in StartDays
    /\ \E age \in {0, 3} : weekly = WeeklyLogFile_openFile(toDate(clock - age))
    /\ asked = NotAsked

DayPasses ==
    /\ \E first \in StartDays : first <= clock /\ clock + 1 <= first + MaxDays
    /\ clock' = clock + 1
    /\ UNCHANGED <<weekly, asked, codecVars, fieldVars, formVars, defaultVars, scriptVars, logVars, threadVars, createVars, helpVars>>

ShouldRotate ==
    /\ asked' = [op |-> "shouldRotate", now |-> toDate(clock), then |-> weekly.lastDate,
                 size |-> weekly.size, res |-> shouldRotate(toDate(clock), weekly)]
    /\ UNCHANGED <<clock, weekly, codecVars, fieldVars, formVars, defaultVars, scriptVars, logVars, threadVars, createVars, helpVars>>

Write(length) ==
    /\ weekly' = WeeklyLogFile_write(toDate(clock), weekly, length)
    /\ asked' = [op |-> "write", now |-> toDate(clock), then |-> weekly.lastDate,
                 size |-> weekly.size, res |-> shouldRotate(toDate(clock), weekly)]
    /\ UNCHANGED <<clock, codecVars, fieldVars, formVars, defaultVars, scriptVars, logVars, threadVars, createVars, helpVars>>

WeeklyNext ==
    \/ DayPasses
    \/ ShouldRotate
    \/ \E length \in {400000, 600000} : Write(length)

WeeklyStart == CodecIdle /\ FieldIdle /\ FormIdle /\ DefaultIdle /\ ScriptIdle /\ LogIdle /\ ThreadIdle /\ CreateIdle /\ WeeklyInit /\ HelpIdle
WeeklySpec == WeeklyStart /\ [][WeeklyNext]_vars

(***************************************************************************)
(* The cache of log file handles: _open_log_file called for two file       *)
(* names, on a cache whose handles have been handed out a number of times. *)
(***************************************************************************)
LogNames == {"server.log", ChannelLog}

\* How often the handles of a cache have been handed out: none, or one
\* per name, fresh or at the end of its 500 accesses.
Caches ==
    LET Counts == {-1, 0, _LOG_FILE_HANDLE_RESET - 1, _LOG_FILE_HANDLE_RESET}
        Entry(cache, f, n) == IF n = -1 THEN cache ELSE Cached(cache, f, n)
    IN  {Entry(Entry(NoHandles(LogNames), "server.log", n), ChannelLog, m) :
            n \in Counts, m \in Counts}

\* The call, with the cache before it and how often each handle has been
\* returned since it was opened.
Accessed(n, filename, ioerror, before, filehandle, served) ==
    [op |-> "_open_log_file", n |-> n, filename |-> filename, ioerror |-> ioerror,
     before |-> before, filehandle |-> filehandle, served |-> served]

CacheInit ==
    /\ \E cache \in Caches :
        /\ log = [exists |-> FALSE, file |-> <<>>, rotated |-> <<>>, handle |-> cache]
        /\ logged = Accessed(0, "", FALSE, cache, 0,
                             [h \in 1..(MaxAccesses + 3) |->
                                 IF \E f \in LogNames : cache.handles[f] = h
                                 THEN cache.counts[CHOOSE f \in LogNames : cache.handles[f] = h]
                                 ELSE 0])
    /\ num_lines_to_append = 0

OpenLogFile(filename, ioerror) ==
    /\ logged.n < MaxAccesses
    /\ LET r == _open_log_file(filename, ioerror, log.handle) IN
        /\ log' = [log EXCEPT !.handle = r.cache]
        /\ logged' = Accessed(logged.n + 1, filename, ioerror, log.handle, r.filehandle,
                              IF r.filehandle = 0 \/ r.filehandle > log.handle.opened
                              THEN logged.served
                              ELSE [logged.served EXCEPT ![r.filehandle] = @ + 1])
    /\ UNCHANGED <<num_lines_to_append, codecVars, fieldVars, formVars, defaultVars, scriptVars, threadVars, createVars, weeklyVars, helpVars>>

CacheNext ==
    \E filename \in LogNames, ioerror \in BOOLEAN : OpenLogFile(filename, ioerror)

CacheStart == CodecIdle /\ FieldIdle /\ FormIdle /\ DefaultIdle /\ ScriptIdle /\ CacheInit /\ ThreadIdle /\ CreateIdle /\ WeeklyIdle /\ HelpIdle
CacheSpec == CacheStart /\ [][CacheNext]_vars

(***************************************************************************)
(* The help entries of a database, and the migration run on them.          *)
(***************************************************************************)
\* The db_lock_storage of help entries: '', 'view:all()', 'edit:id(1)', 'view:all();edit:id(1)', 'edit:id(1);view:all()', 'read:all()',
\* 'view:all();read:id(1)', 'view:id(1);view:all()', 'view:all();', 'view', 'view:a:b', 'edit:id(1);view:all();cmd:all()'
LockStorages ==
    {<<>>,
     <<118, 105, 101, 119, 58, 97, 108, 108, 40, 41>>,
     <<101, 100, 105, 116, 58, 105, 100, 40, 49, 41>>,
     <<118, 105, 101, 119, 58, 97, 108, 108, 40, 41, 59, 101, 100, 105, 116, 58, 105, 100, 40, 49, 41>>,
     <<101, 100, 105, 116, 58, 105, 100, 40, 49, 41, 59, 118, 105, 101, 119, 58, 97, 108, 108, 40, 41>>,
     <<114, 101, 97, 100, 58, 97, 108, 108, 40, 41>>,
     <<118, 105, 101, 119, 58, 97, 108, 108, 40, 41, 59, 114, 101, 97, 100, 58, 105, 100, 40, 49, 41>>,
     <<118, 105, 101, 119, 58, 105, 100, 40, 49, 41, 59, 118, 105, 101, 119, 58, 97, 108, 108, 40, 41>>,
     <<118, 105, 101, 119, 58, 97, 108, 108, 40, 41, 59>>,
     <<118, 105, 101, 119>>,
     <<118, 105, 101, 119, 58, 97, 58, 98>>,
     <<101, 100, 105, 116, 58, 105, 100, 40, 49, 41, 59, 118, 105, 101, 119, 58, 97, 108, 108, 40, 41, 59, 99, 109, 100, 58, 97, 108, 108, 40, 41>>}

HelpInit ==
    /\ help_entries \in [1..2 -> LockStorages]
    /\ migrated = NotMigrated

\* manage.py migrate runs update_help_entries (again, when the migration
\* was taken back)
Migrate ==
    /\ migrated.n < MaxRuns
    /\ help_entries' = update_help_entries(help_entries)
    /\ migrated' = [n |-> migrated.n + 1,
                    first |-> IF migrated.n = 0 THEN help_entries ELSE migrated.first,
                    before |-> help_entries]
    /\ UNCHANGED <<codecVars, fieldVars, formVars, defaultVars, scriptVars, logVars, threadVars, createVars, weeklyVars>>

HelpNext == Migrate

HelpStart == CodecIdle /\ FieldIdle /\ FormIdle /\ DefaultIdle /\ ScriptIdle /\ LogIdle /\ ThreadIdle /\ CreateIdle /\ WeeklyIdle /\ HelpInit
HelpSpec == HelpStart /\ [][HelpNext]_vars

(***************************************************************************)
(* C1.  Round trip: a serializable value is encoded without error, and     *)
(* decoding the text with the same compress flag gives a value equal to    *)
(* it, nested lists and dicts and mixed types included.                    *)
(***************************************************************************)
RoundTrip ==
    /\ (encoded # NoResult /\ Serializable(value)) => encoded.ok
    /\ (decoded # NoResult /\ Serializable(value)) =>
           decoded.ok /\ ValEq(decoded.val, value)

\* A list of a dict and a list that the dict holds too came back, with
\* compression.
RoundTripWitness ==
    /\ decoded.ok
    /\ compress_object
    /\ value.k = "list"
    /\ Len(value.items) = 2
    /\ value.items[1].k = "dict"
    /\ value.items[2].k = "list"
    /\ ValEq(decoded.val, value)

(***************************************************************************)
(* C2.  Byte-stability: two encodings of the same logical value, with the  *)
(* same flag, are the same text, however the two inputs were built and     *)
(* whichever parts they share.                                             *)
(***************************************************************************)
ByteStable ==
    (other_value # Unset /\ ValEq(other_value, value)
        /\ encoded.ok /\ other_encoded.ok)
    => other_encoded.val.s = encoded.val.s

(***************************************************************************)
(* C3.  Conflict wrap transparency: a value with prepare_database_save or  *)
(* a callable one, once written by the field, is read back as the value    *)
(* itself and never as its _ObjectWrapper; a value without either is       *)
(* handed to get_db_prep_value as it is, not wrapped.                      *)
(***************************************************************************)
WrapTransparent ==
    /\ (/\ result.op = "load"
        /\ origin = "field"
        /\ saved.compress = self_compress
        /\ (HasPrepareDatabaseSave(saved.value) \/ Callable(saved.value)))
       => /\ result.res.ok
          /\ ~IsObjectWrapper(result.res.val)
          /\ ValEq(result.res.val, saved.value)
    /\ (/\ result.op = "save"
        /\ ~(HasPrepareDatabaseSave(result.given) \/ Callable(result.given)))
       => result.arg = result.given

\* An instance of a class with prepare_database_save was written under its
\* wrapper and read back.
WrapTransparentWitness ==
    /\ result.op = "load"
    /\ origin = "field"
    /\ saved.compress = self_compress
    /\ saved.value = ObjV(7, RoomClass)
    /\ result.res.ok
    /\ result.res.val.k = "obj"

(***************************************************************************)
(* C4.  Absent value: get_db_prep_value(None) is None and from_db_value(   *)
(* None) is None, neither with a call of the codec, whatever the field's   *)
(* compress setting.                                                       *)
(***************************************************************************)
NoneShortCircuit ==
    (result.op \in {"save", "load"} /\ result.arg = NoneV)
    => result.res = Traced(Ok(NoneV), <<>>)

\* None was saved, the column is NULL, and the row was read with compress on.
NoneShortCircuitWitness ==
    /\ result.op = "load"
    /\ result.arg = NoneV
    /\ saved.value = NoneV
    /\ origin = "field"
    /\ self_compress

(***************************************************************************)
(* C5.  Lookup restriction: get_db_prep_lookup raises TypeError for a      *)
(* lookup type other than exact, in and isnull, without calling the parent *)
(* field; for these three it calls the parent with the same lookup type    *)
(* and value.  The column is never touched.                                *)
(***************************************************************************)
LookupRestricted ==
    result.op = "get_db_prep_lookup" =>
        /\ column = Null
        /\ IF result.kind \in {"exact", "in", "isnull"}
           THEN /\ result.res.ok
                /\ result.res.calls =
                       << <<"Field.get_db_prep_lookup", result.kind, result.given>> >>
           ELSE /\ ~result.res.ok
                /\ result.res.err = "TypeError"
                /\ result.res.calls = <<>>

\* A contains lookup was refused.
LookupRestrictedWitness ==
    /\ result.op = "get_db_prep_lookup"
    /\ result.kind = "contains"
    /\ result.res.err = "TypeError"

(***************************************************************************)
(* C6.  Legacy-tolerant decode, as claimed: a text in the column that this *)
(* encoder never produced is returned by from_db_value as that exact text, *)
(* without an error, under both compress settings.                         *)
(***************************************************************************)
LegacyUnchanged ==
    (result.op = "load" /\ origin = "legacy")
    => result.res.ok /\ result.res.val = result.arg

(***************************************************************************)
(* C6, amended.  A text in the column that this encoder never produced and *)
(* on which decoding fails is returned as that exact text, without an      *)
(* error; one that decodes is returned as the decoded value.               *)
(***************************************************************************)
LegacyTolerant ==
    (result.op = "load" /\ origin = "legacy")
    => LET d == dbsafe_decode(result.arg, self_compress) IN
       /\ ~d.ok => (result.res.ok /\ result.res.val = result.arg)
       /\ (d.ok /\ ~IsObjectWrapper(d.val)) => (result.res.ok /\ result.res.val = d.val)

\* A text of three characters, no base64, came back as it is.
LegacyTolerantWitness ==
    /\ result.op = "load"
    /\ origin = "legacy"
    /\ Len(column.text) = 3
    /\ ~dbsafe_decode(result.arg, self_compress).ok
    /\ result.res.ok
    /\ result.res.val.s = column.text

(***************************************************************************)
(* C7.  A text that this field wrote and that was damaged since is         *)
(* reported on read: when decoding it fails, from_db_value raises.         *)
(***************************************************************************)
CorruptionReported ==
    (/\ result.op = "load"
     /\ origin = "corrupt"
     /\ ~dbsafe_decode(result.arg, self_compress).ok)
    => ~result.res.ok

(***************************************************************************)
(* C8.  Compression symmetry: a value written and read with the same       *)
(* compress setting is read as the value written; written with one setting *)
(* and read with the other, the read raises: it yields neither the raw     *)
(* text nor another value.                                                 *)
(***************************************************************************)
CompressionSymmetric ==
    (result.op = "load" /\ origin = "field" /\ ~column.null)
    => IF saved.compress = self_compress
       THEN result.res.ok /\ ValEq(result.res.val, saved.value)
       ELSE ~result.res.ok

(***************************************************************************)
(* C9.  Admin form validation: a submitted text that is no Python literal  *)
(* is answered with a ValidationError, and clean returns no value.         *)
(***************************************************************************)
NonLiteralRejected ==
    (/\ rendered.by = "user"
     /\ cleaned # NoResult
     /\ strip(rendered.text) # <<>>
     /\ ~literal_eval(strip(rendered.text)).ok)
    => (~cleaned.ok /\ cleaned.err = "ValidationError")

(***************************************************************************)
(* C10.  Admin form round trip: the text the widget renders for a value,   *)
(* submitted as it is, is cleaned to that value: strs too, also the ones   *)
(* that read like another literal.                                         *)
(***************************************************************************)
FormRoundTrip ==
    (rendered.by = "widget" /\ cleaned # NoResult)
    => (cleaned.ok /\ ValEq(cleaned.val, rendered.value))

\* C11: when the field has a default, get_default calls a callable default
\* anew on every call and returns what that call gave (a new object each
\* time), returns any other default as the very object it was declared
\* with, and hands neither the default nor the producer to dbsafe_encode.
DefaultResolved ==
    \A i \in 1..Len(defaults) :
        LET call == defaults[i] IN
        has_default(call.default) =>
            /\ call.res.ok
            /\ \A j \in 1..Len(call.res.calls) : call.res.calls[j][1] # "dbsafe_encode"
            /\ IF Callable(call.default)
               THEN /\ call.res.calls = <<<<"default">>>>
                    /\ call.res.produced = call.before + 1
                    /\ call.res.val = Invoke(call.default, call.res.produced)
                    /\ call.res.val # call.default
                    /\ \A j \in 1..Len(defaults) :
                           (j # i /\ defaults[j].res.ok)
                               => defaults[j].res.val.id # call.res.val.id
               ELSE /\ call.res.calls = <<>>
                    /\ call.res.produced = call.before
                    /\ call.res.val = call.default

\* A producer was called twice in a row, and a mutable default was handed out.
DefaultResolvedWitness ==
    /\ Len(defaults) = 3
    /\ defaults[1].default = HookFn /\ defaults[2].default = HookFn
    /\ defaults[1].res.val = DictV(401, <<>>)
    /\ defaults[2].res.val = DictV(402, <<>>)
    /\ defaults[3].default = ListV(10, <<>>)
    /\ defaults[3].res.val = ListV(10, <<>>)

\* An empty str, list, tuple or dict.
Empty(v) == v.k \in {"str", "list", "tuple", "dict"} /\ v.s = <<>> /\ v.items = <<>>

\* C12 as stated: saving an empty value (empty str, empty sequence, empty
\* mapping) makes no call of the encoder and leaves NULL in the column, as
\* saving None does.
EmptyBypasses ==
    (result.op = "save" /\ Empty(result.given))
    => (result.res = Traced(Ok(NoneV), <<>>) /\ column = Null)

\* C12 amended: only None bypasses the encoder.  Saving an empty str, list,
\* tuple or dict calls dbsafe_encode once and stores its text, which is not
\* NULL and reads back as the empty value, not as None.
EmptyEncoded ==
    (result.op = "save" /\ Empty(result.given))
    => /\ result.res.ok
       /\ result.res.calls = << <<"dbsafe_encode">> >>
       /\ ~column.null
       /\ column.text = result.res.val.s
       /\ LET back == from_db_value(PlainStr(column.text), self_compress) IN
              /\ back.ok
              /\ ValEq(back.val, result.given)
              /\ back.val # NoneV

\* An empty list was saved with compression on.
EmptyEncodedWitness ==
    /\ result.op = "save"
    /\ result.given = ListV(10, <<>>)
    /\ self_compress
    /\ ~column.null

\* What dbsafe_encode makes of v once the copy is given up and v is packed
\* instead: dumps, compress, b64encode on pack_dbobj(v).
EncodedPacked(v, compressed) ==
    LET dumped == dumps(pack_dbobj(v)) IN
    IF ~dumped.ok THEN dumped
    ELSE Ok(PickledObject(b64encode(IF compressed
                                    THEN compress(dumped.val)
                                    ELSE dumped.val)))

\* C13: whenever deepcopy fails on the value handed to dbsafe_encode,
\* whatever it raises, the encoder goes on with pack_dbobj(value) and the
\* caller gets what encoding the packed value gives, never the error of the
\* copy.
CopyFailureContained ==
    (encoded # NoResult /\ ~deepcopy(value).ok)
    => encoded = EncodedPacked(value, compress_object)

\* C14: start and all call _load_script for every key of the settings.  If
\* the script of such a key existed before the call, then after it: when
\* the kwargs the settings declare differ from the kwargs the script was
\* created with, the old script is gone and a new, running one made with
\* the declared kwargs stands in its place; when they are the same, the
\* script is still the old one.  This is so in every reachable state, the
\* first load after a creation included.
Reconciled ==
    \A key \in DOMAIN scripts :
        (/\ called.op \in {"start", "all"}
         /\ called.res.ok
         /\ InLoadedData(loaded_data, key)
         /\ called.before[key].pk # 0)
        => IF called.before[key].kwargs # ScriptKwargs(loaded_data, key)
           THEN /\ scripts[key].pk \notin {0, called.before[key].pk}
                /\ scripts[key].kwargs = ScriptKwargs(loaded_data, key)
                /\ scripts[key].running
           ELSE scripts[key].pk = called.before[key].pk

\* C15: get(key, default) returns the global script of that key when there
\* is one; when there is none and the key is in the settings, it returns
\* the script it has created and started for it, or default when none
\* could be made; for any other key it returns default.  It never raises.
GetOrDefault ==
    called.op = "get" =>
        /\ called.res.ok
        /\ IF called.before[called.key].pk # 0
           THEN called.res.val = called.before[called.key].pk
           ELSE IF InLoadedData(loaded_data, called.key) /\ scripts[called.key].pk # 0
           THEN called.res.val = scripts[called.key].pk /\ scripts[called.key].running
           ELSE called.res.val = called.fallback

\* C16: a call of all() that returns gives the global scripts that were
\* there before the call, and creates and starts none: the scripts and
\* which of them run are as before.
AllLeavesScripts ==
    (called.op = "all" /\ called.res.ok) =>
        /\ called.res.val = {called.before[key].pk : key \in DOMAIN scripts} \ {0}
        /\ \A key \in DOMAIN scripts :
               /\ scripts[key].pk = called.before[key].pk
               /\ scripts[key].running = called.before[key].running

\* The last n whole lines of a file, all of them when it has fewer.
LastLines(file, n) == SubSeq(file, IF n > Len(file) THEN 1 ELSE Len(file) - n + 1, Len(file))

\* C17: after rotate_log_file(filename, num_lines_to_append=N) on a log
\* that exists, the old content is the rotated file and the new file is
\* made of exactly the last N lines of it, where N = None stands for the
\* configured number of tail lines, and N = 0 leaves the new file empty.
RotationCarriesTail ==
    logged.op = "rotate" =>
        /\ log.rotated = logged.before
        /\ log.file = LastLines(logged.before,
                                IF logged.nlines = -1 THEN num_lines_to_append
                                ELSE logged.nlines)

\* C18: tail_log_file(filename, offset, nlines) returns the whole lines
\* lines[-(offset + nlines) : len - offset] of the file, all there are when
\* the file has fewer, wherever the blocks read backwards begin; no item
\* returned is the rest of a line.
TailExact ==
    logged.op = "tail" =>
        /\ logged.lines =
               LastLines(SubSeq(logged.before, 1, Len(logged.before) - logged.offset),
                         logged.nlines)
        /\ \A i \in 1..Len(logged.lines) : logged.lines[i].from = 0

\* What a call gives when nothing else runs.
Alone(frame) ==
    CASE frame.op = "dbsafe_encode" -> dbsafe_encode(frame.arg, frame.compress_object)
      [] frame.op = "dbsafe_decode" -> dbsafe_decode(frame.arg, frame.compress_object)
      [] frame.op = "wrap_conflictual_object" -> Ok(wrap_conflictual_object(frame.arg))

\* C19: however the statements of concurrent calls of dbsafe_encode,
\* dbsafe_decode and wrap_conflictual_object interleave, each call returns
\* or raises what it does when it runs alone on its input, and no call
\* changes the module's globals: there is no state the calls share.
CallsIsolated ==
    /\ module = ModuleGlobals
    /\ \A t \in Threads : frames[t].pc = "done" => frames[t].result = Alone(frames[t])

\* Two calls of dbsafe_encode on different values, with compression, have
\* both returned after their statements were interleaved.
CallsIsolatedWitness ==
    /\ \A t \in Threads :
           /\ frames[t].pc = "done"
           /\ frames[t].op = "dbsafe_encode"
           /\ frames[t].interleaved
           /\ frames[t].compress_object
           /\ frames[t].result.ok
    /\ frames["main"].arg = IntV(1)
    /\ frames["worker"].arg = HookFn

\* The post-create signal of each creation function.
PostCreateSignal ==
    [create_object |-> "SIGNAL_OBJECT_POST_CREATE",
     create_script |-> "SIGNAL_SCRIPT_POST_CREATE",
     create_help_entry |-> "SIGNAL_HELPENTRY_POST_CREATE",
     create_channel |-> "SIGNAL_CHANNEL_POST_CREATE"]

\* C20: a creation call that succeeds (it returns the new entity) sends
\* its post-create signal exactly once, with the entity as sender, after
\* the entity was saved; a call that fails (it raises or returns None)
\* sends none.  This is to hold for create_help_entry with
\* SIGNAL_HELPENTRY_POST_CREATE as it does for create_object,
\* create_script and create_channel.
PostCreateNotified ==
    created.op # "none" =>
        LET did == SubSeq(events, created.before + 1, Len(events))
            sends == {i \in 1..Len(did) : did[i].event = "send"}
        IN  IF created.res.ok /\ created.res.val # NoRow
            THEN /\ Cardinality(sends) = 1
                 /\ \E i \in 1..Len(did), j \in sends :
                        /\ i < j
                        /\ did[i] = Event("save", created.res.val.table, created.res.val.id)
                        /\ did[j] = Event("send", PostCreateSignal[created.op], created.res.val.id)
            ELSE sends = {}

\* The accounts there were when the last call began: the rows saved before it.
AccountsBefore ==
    SubSeq(rows, 1, Cardinality({i \in 1..created.before : events[i].event = "save"}))

\* C21: create_account raises ValueError when an account whose name equals
\* key up to case exists, and the validator's error when the password is
\* given and invalid; in both cases no account is saved.  So no two
\* accounts ever have names that are equal up to case.
AccountsUnique ==
    /\ \A i, j \in 1..Len(rows) : i # j => lower(rows[i].key) # lower(rows[j].key)
    /\ created.op = "create_account" =>
        LET existed == \E i \in 1..Len(AccountsBefore) :
                           lower(AccountsBefore[i].key) = lower(created.key)
        IN  /\ existed => created.res = Raise("ValueError") /\ rows = AccountsBefore
            /\ ~existed /\ created.password # "None" /\ ~created.valid =>
                   created.res = Raise("ValidationError") /\ rows = AccountsBefore
            /\ created.res.ok =>
                   /\ ~existed
                   /\ rows = Append(AccountsBefore, created.res.val)
                   /\ created.res.val.key = created.key

\* An account exists, and a call with its name written in another case
\* was refused.
AccountsUniqueWitness ==
    /\ created.op = "create_account"
    /\ created.res = Raise("ValueError")
    /\ Len(rows) >= 1
    /\ \A i \in 1..Len(rows) : rows[i].key # created.key
    /\ \E i \in 1..Len(rows) : lower(rows[i].key) = lower(created.key)

\* C22: what get_db_prep_value returns for a value that is not None is a
\* PickledObject, and get_db_prep_value returns a PickledObject as it is,
\* without encoding it: called on its own result it returns that result,
\* which is what it returned for the value given first.
PreparedOnce ==
    result.op = "get_db_prep_value" =>
        /\ (result.res.ok /\ result.arg # NoneV) => IsPickledObject(result.res.val)
        /\ IsPickledObject(result.arg) => result.res = Traced(Ok(result.arg), <<>>)
        /\ (result.kind = "again" /\ result.given # NoneV) =>
               /\ result.res = Traced(Ok(result.arg), <<>>)
               /\ result.res.val = get_db_prep_value(result.given, self_compress).val

\* get_db_prep_value was called on the encoding it had made of a list, and
\* returned it.
PreparedOnceWitness ==
    /\ result.op = "get_db_prep_value"
    /\ result.kind = "again"
    /\ result.given.k = "list"
    /\ result.given.items # <<>>
    /\ result.res.ok
    /\ result.res.val = dbsafe_encode(result.given, self_compress).val

\* C23: while the size is below max_size, shouldRotate() is true exactly
\* when more than day_rotation days lie between the date of the last write
\* and today's date, whatever the months and years of the two dates; and it
\* is true whenever the size has reached max_size.
WeeklyRotation ==
    asked.op # "none" =>
        IF asked.size >= max_size THEN asked.res
        ELSE asked.res <=> (toordinal(asked.now) - toordinal(asked.then) > day_rotation)

\* C24: every file name with a cached handle has a counter from 0 to
\* _LOG_FILE_HANDLE_RESET, which is how often the handle was returned from
\* the cache since it was opened; the access after the 500th closes the
\* handle and, the file opening, returns and caches a new handle with
\* counter 0; no handle that was closed is returned or cached again.
HandleCacheBounded ==
    LET cache == log.handle IN
    /\ \A f \in DOMAIN cache.handles :
           cache.handles[f] # 0 =>
               /\ cache.counts[f] \in 0.._LOG_FILE_HANDLE_RESET
               /\ cache.counts[f] = logged.served[cache.handles[f]]
               /\ cache.handles[f] \notin cache.closed
    /\ \A h \in DOMAIN logged.served : logged.served[h] <= _LOG_FILE_HANDLE_RESET
    /\ logged.n > 0 =>
        LET f == logged.filename
            was == logged.before
        IN  /\ logged.filehandle \notin cache.closed
            /\ (was.handles[f] # 0 /\ was.counts[f] < _LOG_FILE_HANDLE_RESET) =>
                   /\ logged.filehandle = was.handles[f]
                   /\ cache.handles[f] = was.handles[f]
                   /\ cache.counts[f] = was.counts[f] + 1
            /\ (was.handles[f] # 0 /\ was.counts[f] = _LOG_FILE_HANDLE_RESET) =>
                   /\ was.handles[f] \in cache.closed
                   /\ logged.filehandle # was.handles[f]
                   /\ ~logged.ioerror =>
                          /\ logged.filehandle > was.opened
                          /\ cache.handles[f] = logged.filehandle
                          /\ cache.counts[f] = 0
            /\ \A g \in DOMAIN cache.handles \ {f} :
                   cache.handles[g] = was.handles[g] /\ cache.counts[g] = was.counts[g]

\* A handle that had been returned 500 times was closed by the next
\* access, which returned a new handle; the access after that returned
\* the new handle from the cache.
HandleCacheBoundedWitness ==
    /\ logged.op = "_open_log_file"
    /\ logged.n >= 2
    /\ logged.before.counts[logged.filename] = 0
    /\ logged.before.closed # {}
    /\ logged.filehandle = logged.before.handles[logged.filename]
    /\ logged.filehandle # 0
    /\ logged.served[logged.filehandle] = 1
    /\ \E h \in logged.before.closed : logged.served[h] = _LOG_FILE_HANDLE_RESET

\* The lock types of a db_lock_storage.
LockTypes(lock_storage) ==
    {LockDict(lock_storage)[i][1] : i \in 1..Len(LockDict(lock_storage))}

\* C25: the migration leaves an entry that has a read lock as it is; in an
\* entry without one, the view lock (if there is one) becomes the read lock
\* with the same definition, and every other lock is kept with its
\* definition, no other lock being added; and a second run of the
\* migration changes no entry.
ViewBecomesRead ==
    /\ migrated.n > 0 =>
        \A pk \in DOMAIN help_entries :
            LET was == LockDict(migrated.before[pk])
                now == LockDict(help_entries[pk])
                kept == LockTypes(migrated.before[pk]) \ {ViewType}
            IN  IF LockIn(was, ReadType) THEN help_entries[pk] = migrated.before[pk]
                ELSE /\ LockIn(was, ViewType) =>
                            /\ LockIn(now, ReadType)
                            /\ LockOf(now, ReadType) = LockOf(was, ViewType)
                     /\ ~LockIn(now, ViewType)
                     /\ \A typ \in kept : LockIn(now, typ) /\ LockOf(now, typ) = LockOf(was, typ)
                     /\ LockTypes(help_entries[pk]) =
                            kept \cup (IF LockIn(was, ViewType) THEN {ReadType} ELSE {})
    /\ migrated.n > 1 => help_entries = migrated.before

\* The migration has run twice on an entry with a view lock, no read lock
\* and another lock: the first run changed the entry, the second did not.
ViewBecomesReadWitness ==
    /\ migrated.n = 2
    /\ help_entries = migrated.before
    /\ \E pk \in DOMAIN help_entries :
        /\ LockTypes(migrated.first[pk]) \ {ViewType, ReadType} # {}
        /\ ViewType \in LockTypes(migrated.first[pk])
        /\ ReadType \notin LockTypes(migrated.first[pk])
        /\ help_entries[pk] # migrated.first[pk]
        /\ ReadType \in LockTypes(help_entries[pk])

=============================================================================
